---- MODULE Spec2Model ----
(***************************************************************************)
(* State-machine model of the speech2text repository: the command-line     *)
(* batch processor, the Step 2 transcription action of the interactive     *)
(* app, the multi-file processor's per-file retry loop, the ElevenLabs SDK *)
(* adapter, the MarkItDown engine construction and the Gemini response     *)
(* parser.  Texts are TLA+ strings; Python's None is the string NoneVal.   *)
(* Non-ASCII literals of the source are written in ASCII.                  *)
(***************************************************************************)
EXTENDS Integers, Sequences, FiniteSets, TLC

\* ------------------------------------------------------------------ bounds
MaxFiles == 3
MaxWorkers == 2
MaxRetries == 4
MaxElevenRetries == 8
MaxResponseLen == 4

\* --------------------------------------------------------------- constants
NoneVal == "<None>"
\* python truthiness of an Optional[str]
Truthy(s) == s # NoneVal /\ s # ""

VARIABLES
    \* batch_processor_cli.py
    cli_pc,          \* position of BatchProcessor.process_batch
    audio_files,     \* the sorted list found by find_audio_files (1..n)
    file_info,       \* per file: size class and what the provider answers
    save_raises,     \* files for which writing the output files raises
    max_workers,     \* self.max_workers
    future,          \* per file: state of its future in the thread pool
    worker_result,   \* per file: the value its future holds
    results,         \* self.results, in dict insertion order
    report,          \* the report written by generate_report
    \* main_app.py, Step 2 (speech to text)
    s2_pc,                 \* position of the transcription handler
    transcription_service, \* the provider chosen in the UI
    openai_api_key,        \* st.session_state["openai_api_key"]
    elevenlabs_api_key,    \* st.session_state["elevenlabs_api_key"]
    audio_ok,              \* AudioSegment.from_file can decode the upload
    duration_ms,           \* len(audio)
    start_time,            \* start_time of the splitting loop, in ms
    segments,              \* slices exported by the splitting loop
    audio_segments,        \* the list the transcription loop iterates
    seg_i,                 \* i of "for i, segment_path in enumerate(..)"
    retry_count,
    failed,
    segment_results,
    attempt_log,           \* provider submissions and sleeps, in order
    full_transcript,
    transcribed_text,      \* st.session_state.transcribed_text
    st_errors,             \* messages shown with st.error, in order
    \* multi_file_processor.py, process_single_file
    mf_pc,            \* position in process_single_file
    mf_info,          \* the file: size class
    mf_max_retries,   \* max_retries
    mf_retry,         \* retry of "for retry in range(max_retries)"
    mf_result,        \* the result dict
    mf_log,           \* attempts and sleeps, in order
    \* audio2text/elevenlabs_stt.py, transcribe_audio_elevenlabs
    el_pc,
    el_max_retries,
    el_attempt,       \* attempt of "for attempt in range(max_retries)"
    el_log,           \* attempts and sleeps, in order
    el_return,        \* the value returned
    \* markitdown_utils.py, convert_file_to_markdown from the engine
    \* construction on
    md_pc,
    md_llm_client,    \* llm_client is set (use_llm with a valid key)
    md_attempt,       \* attempt of "for attempt in range(max_retries)"
    md,               \* the MarkItDown instance: none, full or reduced
    md_log,           \* constructor calls, reinstalls and the conversion
    md_return,        \* the (success, text, info) triple returned
    \* main_app.py, refine_transcript_gemini: parsing of the response
    gm_pc,
    response_text,    \* response.text as a sequence of tokens
    gm_return,        \* the dict returned, or None
    \* merge_transcript_multi_slides.py, MultiSlidesProcessor: image lookup
    rs_pc,
    all_slide_images, \* self.all_slide_images, in dict insertion order
    rs_deck,          \* slide_index of the deck being loaded
    rs_loaded,        \* number of image files loaded so far
    rs_target,        \* target_time, in tenths of a second
    rs_return,        \* the image inserted, or None
    \* batch_processor_cli.py, main
    cm_pc,
    env_openai_api_key,  \* os.getenv("OPENAI_API_KEY")
    env_google_api_key,  \* os.getenv("GOOGLE_API_KEY")
    exit_code,           \* the process exit status, -1 while running
    \* merge_transcript_multi_slides.py, parse_time_format
    tp_pc,
    time_str,         \* the argument, a sequence of characters
    tp_return,        \* the value returned, None, or the exception raised
    \* main_app.py, the session across Step 1 hand-off, Step 2 and Step 3
    last_action,          \* the button whose handler ran last
    optimization_service, \* the refinement provider chosen in the sidebar
    gemini_api_key,       \* st.session_state["gemini_api_key"]
    markdown_text,        \* st.session_state.markdown_text (Step 1)
    optimized_text,       \* st.session_state.optimized_text
    summary_text,         \* st.session_state.summary_text
    full_result,          \* st.session_state.full_result
    input_tokens,         \* st.session_state.input_tokens
    output_tokens,        \* st.session_state.output_tokens
    total_tokens,         \* st.session_state.total_tokens
    s3_provider,          \* what the provider answers to the refiner
    s3_errors,            \* st.error messages of the last Step 3 run
    s3_calls,             \* provider calls of the last Step 3 run
    \* markitdown_utils.py, convert_file_to_markdown on a PPTX file
    px_pc,
    px_use_llm,       \* use_llm
    px_api_key,       \* api_key
    px_vision_ok,     \* analyze_pptx_with_vision would succeed
    px_parse_ok,      \* python-pptx can open the deck
    prs_slides,       \* prs.slides: per slide, the kinds of its shapes
    slide_idx,        \* slides handled so far
    slide_count,
    text_content,     \* the list of output lines
    px_return,        \* (success, text, conversion_info)
    \* image_analyzer.py, enhance_slides
    es_pc,
    es_text,          \* markdown_text, as tokens
    es_slides,        \* slides, the chunks of re.split
    es_i,             \* chunks handled so far
    enhanced_slides,
    es_return,        \* enhanced_text
    \* markitdown_utils.py, extract_keywords
    kw_pc,
    kw_count,         \* count
    kw_api_ok,        \* the chat completion call returns
    keywords_text,    \* response.choices[0].message.content
    kw_return,
    \* utils.py, check_file_constraints(file_path, diarize)
    cf_pc,
    cf_file_size,     \* os.path.getsize(file_path), or GetsizeRaises
    cf_diarize,       \* diarize
    cf_decoder,       \* ffmpeg, which pydub decodes with: "available" or "missing"
    cf_from_file,     \* what AudioSegment.from_file does: len(audio) or an exception
    cf_return,        \* (ok, message)
    \* main_app.py, Step 2: the files it leaves in the temp directory
    temp_files,
    \* whisper_stt.py, transcribe_audio_whisper called repeatedly in a process
    wh_deps_ok,       \* torch and whisper can be imported
    wh_log,           \* per call: the size, whether load_model ran, the result
    \* multi_file_processor.py, "Start Batch Processing"
    bt_pc,
    bt_files,           \* audio_files (1..n)
    bt_max_workers,     \* max_workers of the slider
    bt_future,          \* per file: state of its future
    bt_outcome,         \* per file: what its worker ended with
    processing_status,  \* st.session_state.processing_status
    bt_results,         \* st.session_state.results: per file its status, or absent
    bt_completed,       \* the local counter completed
    bt_metrics          \* the four metrics as last written

cliVars == <<cli_pc, audio_files, file_info, save_raises, max_workers,
             future, worker_result, results, report>>

step2Vars == <<s2_pc, transcription_service, openai_api_key,
               elevenlabs_api_key, audio_ok, duration_ms, start_time,
               segments, audio_segments, seg_i, retry_count, failed,
               segment_results, attempt_log, full_transcript,
               transcribed_text, st_errors>>

mfVars == <<mf_pc, mf_info, mf_max_retries, mf_retry, mf_result, mf_log>>
elVars == <<el_pc, el_max_retries, el_attempt, el_log, el_return>>
mdVars == <<md_pc, md_llm_client, md_attempt, md, md_log, md_return>>
gmVars == <<gm_pc, response_text, gm_return>>
rsVars == <<rs_pc, all_slide_images, rs_deck, rs_loaded, rs_target,
            rs_return>>
cmVars == <<cm_pc, env_openai_api_key, env_google_api_key, exit_code>>
tpVars == <<tp_pc, time_str, tp_return>>
s3Vars == <<last_action, optimization_service, gemini_api_key,
            markdown_text, optimized_text, summary_text, full_result,
            input_tokens, output_tokens, total_tokens, s3_provider,
            s3_errors, s3_calls>>
pxVars == <<px_pc, px_use_llm, px_api_key, px_vision_ok, px_parse_ok,
            prs_slides, slide_idx, slide_count, text_content, px_return>>
esVars == <<es_pc, es_text, es_slides, es_i, enhanced_slides, es_return>>
kwVars == <<kw_pc, kw_count, kw_api_ok, keywords_text, kw_return>>
cfVars == <<cf_pc, cf_file_size, cf_diarize, cf_decoder, cf_from_file,
            cf_return>>
tfVars == <<temp_files>>
whVars == <<wh_deps_ok, wh_log>>
btVars == <<bt_pc, bt_files, bt_max_workers, bt_future, bt_outcome,
            processing_status, bt_results, bt_completed, bt_metrics>>

vars == <<cliVars, step2Vars, mfVars, elVars, mdVars, gmVars, rsVars,
    cmVars, tpVars, s3Vars, pxVars, esVars, kwVars, cfVars, tfVars, whVars,
    btVars>>

notCli == <<step2Vars, mfVars, elVars, mdVars, gmVars, rsVars, cmVars,
    tpVars, s3Vars, pxVars, esVars, kwVars, cfVars, tfVars, whVars, btVars>>
notStep2 == <<cliVars, mfVars, elVars, mdVars, gmVars, rsVars, cmVars,
    tpVars, s3Vars, pxVars, esVars, kwVars, cfVars, tfVars, whVars, btVars>>
notMf == <<cliVars, step2Vars, elVars, mdVars, gmVars, rsVars, cmVars,
    tpVars, s3Vars, pxVars, esVars, kwVars, cfVars, tfVars, whVars, btVars>>
notEl == <<cliVars, step2Vars, mfVars, mdVars, gmVars, rsVars, cmVars,
    tpVars, s3Vars, pxVars, esVars, kwVars, cfVars, tfVars, whVars, btVars>>
notMd == <<cliVars, step2Vars, mfVars, elVars, gmVars, rsVars, cmVars,
    tpVars, s3Vars, pxVars, esVars, kwVars, cfVars, tfVars, whVars, btVars>>
notGm == <<cliVars, step2Vars, mfVars, elVars, mdVars, rsVars, cmVars,
    tpVars, s3Vars, pxVars, esVars, kwVars, cfVars, tfVars, whVars, btVars>>
notRs == <<cliVars, step2Vars, mfVars, elVars, mdVars, gmVars, cmVars,
    tpVars, s3Vars, pxVars, esVars, kwVars, cfVars, tfVars, whVars, btVars>>
notCm == <<cliVars, step2Vars, mfVars, elVars, mdVars, gmVars, rsVars,
    tpVars, s3Vars, pxVars, esVars, kwVars, cfVars, tfVars, whVars, btVars>>
notTp == <<cliVars, step2Vars, mfVars, elVars, mdVars, gmVars, rsVars,
    cmVars, s3Vars, pxVars, esVars, kwVars, cfVars, tfVars, whVars, btVars>>
notS3 == <<cliVars, step2Vars, mfVars, elVars, mdVars, gmVars, rsVars,
    cmVars, tpVars, pxVars, esVars, kwVars, cfVars, tfVars, whVars, btVars>>
notPx == <<cliVars, step2Vars, mfVars, elVars, mdVars, gmVars, rsVars,
    cmVars, tpVars, s3Vars, esVars, kwVars, cfVars, tfVars, whVars, btVars>>
notEs == <<cliVars, step2Vars, mfVars, elVars, mdVars, gmVars, rsVars,
    cmVars, tpVars, s3Vars, pxVars, kwVars, cfVars, tfVars, whVars, btVars>>
notKw == <<cliVars, step2Vars, mfVars, elVars, mdVars, gmVars, rsVars,
    cmVars, tpVars, s3Vars, pxVars, esVars, cfVars, tfVars, whVars, btVars>>
notCf == <<cliVars, step2Vars, mfVars, elVars, mdVars, gmVars, rsVars,
    cmVars, tpVars, s3Vars, pxVars, esVars, kwVars, tfVars, whVars, btVars>>
notTf == <<cliVars, step2Vars, mfVars, elVars, mdVars, gmVars, rsVars,
    cmVars, tpVars, s3Vars, pxVars, esVars, kwVars, cfVars, whVars, btVars>>
notWh == <<cliVars, step2Vars, mfVars, elVars, mdVars, gmVars, rsVars,
    cmVars, tpVars, s3Vars, pxVars, esVars, kwVars, cfVars, tfVars, btVars>>
notBt == <<cliVars, step2Vars, mfVars, elVars, mdVars, gmVars, rsVars,
    cmVars, tpVars, s3Vars, pxVars, esVars, kwVars, cfVars, tfVars, whVars>>
notCliCm == <<step2Vars, mfVars, elVars, mdVars, gmVars, rsVars, tpVars,
    s3Vars, pxVars, esVars, kwVars, cfVars, tfVars, whVars, btVars>>
notStep2S3 == <<cliVars, mfVars, elVars, mdVars, gmVars, rsVars, cmVars,
    tpVars, pxVars, esVars, kwVars, cfVars, tfVars, whVars, btVars>>
notStep2Tf == <<cliVars, mfVars, elVars, mdVars, gmVars, rsVars, cmVars,
    tpVars, s3Vars, pxVars, esVars, kwVars, cfVars, whVars, btVars>>

IdleCli ==
    /\ cli_pc = "idle" /\ audio_files = <<>> /\ file_info = <<>>
    /\ save_raises = {} /\ max_workers = 1 /\ future = <<>>
    /\ worker_result = <<>> /\ results = <<>> /\ report = NoneVal

IdleStep2 ==
    /\ s2_pc = "idle" /\ transcription_service = "Whisper"
    /\ openai_api_key = "" /\ elevenlabs_api_key = "" /\ audio_ok = TRUE
    /\ duration_ms = 0 /\ start_time = 0 /\ segments = <<>>
    /\ audio_segments = <<>> /\ seg_i = 0 /\ retry_count = 0
    /\ failed = FALSE /\ segment_results = <<>> /\ attempt_log = <<>>
    /\ full_transcript = "" /\ transcribed_text = "" /\ st_errors = <<>>

IdleMf ==
    /\ mf_pc = "idle" /\ mf_info = [size |-> "small"] /\ mf_max_retries = 3
    /\ mf_retry = 0 /\ mf_log = <<>>
    /\ mf_result = [status |-> "processing", transcription |-> NoneVal,
                    summary |-> NoneVal, error |-> NoneVal, retries |-> 0]

IdleEl ==
    /\ el_pc = "idle" /\ el_max_retries = 5 /\ el_attempt = 0
    /\ el_log = <<>> /\ el_return = "unset"

IdleMd ==
    /\ md_pc = "idle" /\ md_llm_client = FALSE /\ md_attempt = 0
    /\ md = "none" /\ md_log = <<>> /\ md_return = "unset"

IdleGm ==
    /\ gm_pc = "idle" /\ response_text = <<>> /\ gm_return = "unset"

RsNone == [found |-> FALSE, time |-> 0, slide_index |-> 0, img |-> 0]

IdleRs ==
    /\ rs_pc = "idle" /\ all_slide_images = <<>> /\ rs_deck = 0
    /\ rs_loaded = 0 /\ rs_target = 0 /\ rs_return = RsNone

IdleCm ==
    /\ cm_pc = "idle" /\ env_openai_api_key = NoneVal
    /\ env_google_api_key = NoneVal /\ exit_code = -1

IdleTp ==
    /\ tp_pc = "idle" /\ time_str = <<>> /\ tp_return = "unset"

IdleS3 ==
    /\ last_action = "none" /\ optimization_service = "Gemini"
    /\ gemini_api_key = "" /\ markdown_text = NoneVal
    /\ optimized_text = NoneVal /\ summary_text = NoneVal
    /\ full_result = NoneVal /\ input_tokens = 0 /\ output_tokens = 0
    /\ total_tokens = 0 /\ s3_provider = "ok" /\ s3_errors = <<>>
    /\ s3_calls = <<>>

PxUnset == [success |-> FALSE, method |-> "unset", lines |-> <<>>,
            slide_count |-> 0]

IdlePx ==
    /\ px_pc = "idle" /\ px_use_llm = FALSE /\ px_api_key = ""
    /\ px_vision_ok = FALSE /\ px_parse_ok = TRUE /\ prs_slides = <<>>
    /\ slide_idx = 0 /\ slide_count = 0 /\ text_content = <<>>
    /\ px_return = PxUnset

IdleEs ==
    /\ es_pc = "idle" /\ es_text = <<>>
    /\ es_slides = <<>> /\ es_i = 0 /\ enhanced_slides = <<>>
    /\ es_return = <<>>

IdleKw ==
    /\ kw_pc = "idle" /\ kw_count = 10 /\ kw_api_ok = TRUE
    /\ keywords_text = <<>> /\ kw_return = <<>>

IdleCf ==
    /\ cf_pc = "idle" /\ cf_file_size = 0 /\ cf_diarize = FALSE
    /\ cf_decoder = "available" /\ cf_from_file = [raised |-> "", len |-> 0]
    /\ cf_return = <<FALSE, "unset">>

IdleTf == temp_files = {}

IdleWh == wh_deps_ok = TRUE /\ wh_log = <<>>

NoMetrics == [pending |-> 0, processing |-> 0, completed |-> 0, failed |-> 0]

IdleBt ==
    /\ bt_pc = "idle" /\ bt_files = <<>> /\ bt_max_workers = 2
    /\ bt_future = <<>> /\ bt_outcome = <<>> /\ processing_status = <<>>
    /\ bt_results = <<>> /\ bt_completed = 0 /\ bt_metrics = NoMetrics

IdleExceptCli == IdleStep2 /\ IdleMf /\ IdleEl /\ IdleMd /\ IdleGm /\
    IdleRs /\ IdleCm /\ IdleTp /\ IdleS3 /\ IdlePx /\ IdleEs /\ IdleKw /\
    IdleCf /\ IdleTf /\ IdleWh /\ IdleBt
IdleExceptStep2 == IdleCli /\ IdleMf /\ IdleEl /\ IdleMd /\ IdleGm /\
    IdleRs /\ IdleCm /\ IdleTp /\ IdleS3 /\ IdlePx /\ IdleEs /\ IdleKw /\
    IdleCf /\ IdleTf /\ IdleWh /\ IdleBt
IdleExceptMf == IdleCli /\ IdleStep2 /\ IdleEl /\ IdleMd /\ IdleGm /\
    IdleRs /\ IdleCm /\ IdleTp /\ IdleS3 /\ IdlePx /\ IdleEs /\ IdleKw /\
    IdleCf /\ IdleTf /\ IdleWh /\ IdleBt
IdleExceptEl == IdleCli /\ IdleStep2 /\ IdleMf /\ IdleMd /\ IdleGm /\
    IdleRs /\ IdleCm /\ IdleTp /\ IdleS3 /\ IdlePx /\ IdleEs /\ IdleKw /\
    IdleCf /\ IdleTf /\ IdleWh /\ IdleBt
IdleExceptMd == IdleCli /\ IdleStep2 /\ IdleMf /\ IdleEl /\ IdleGm /\
    IdleRs /\ IdleCm /\ IdleTp /\ IdleS3 /\ IdlePx /\ IdleEs /\ IdleKw /\
    IdleCf /\ IdleTf /\ IdleWh /\ IdleBt
IdleExceptGm == IdleCli /\ IdleStep2 /\ IdleMf /\ IdleEl /\ IdleMd /\
    IdleRs /\ IdleCm /\ IdleTp /\ IdleS3 /\ IdlePx /\ IdleEs /\ IdleKw /\
    IdleCf /\ IdleTf /\ IdleWh /\ IdleBt
IdleExceptRs == IdleCli /\ IdleStep2 /\ IdleMf /\ IdleEl /\ IdleMd /\
    IdleGm /\ IdleCm /\ IdleTp /\ IdleS3 /\ IdlePx /\ IdleEs /\ IdleKw /\
    IdleCf /\ IdleTf /\ IdleWh /\ IdleBt
IdleExceptCm == IdleCli /\ IdleStep2 /\ IdleMf /\ IdleEl /\ IdleMd /\
    IdleGm /\ IdleRs /\ IdleTp /\ IdleS3 /\ IdlePx /\ IdleEs /\ IdleKw /\
    IdleCf /\ IdleTf /\ IdleWh /\ IdleBt
IdleExceptTp == IdleCli /\ IdleStep2 /\ IdleMf /\ IdleEl /\ IdleMd /\
    IdleGm /\ IdleRs /\ IdleCm /\ IdleS3 /\ IdlePx /\ IdleEs /\ IdleKw /\
    IdleCf /\ IdleTf /\ IdleWh /\ IdleBt
IdleExceptS3 == IdleCli /\ IdleStep2 /\ IdleMf /\ IdleEl /\ IdleMd /\
    IdleGm /\ IdleRs /\ IdleCm /\ IdleTp /\ IdlePx /\ IdleEs /\ IdleKw /\
    IdleCf /\ IdleTf /\ IdleWh /\ IdleBt
IdleExceptPx == IdleCli /\ IdleStep2 /\ IdleMf /\ IdleEl /\ IdleMd /\
    IdleGm /\ IdleRs /\ IdleCm /\ IdleTp /\ IdleS3 /\ IdleEs /\ IdleKw /\
    IdleCf /\ IdleTf /\ IdleWh /\ IdleBt
IdleExceptEs == IdleCli /\ IdleStep2 /\ IdleMf /\ IdleEl /\ IdleMd /\
    IdleGm /\ IdleRs /\ IdleCm /\ IdleTp /\ IdleS3 /\ IdlePx /\ IdleKw /\
    IdleCf /\ IdleTf /\ IdleWh /\ IdleBt
IdleExceptKw == IdleCli /\ IdleStep2 /\ IdleMf /\ IdleEl /\ IdleMd /\
    IdleGm /\ IdleRs /\ IdleCm /\ IdleTp /\ IdleS3 /\ IdlePx /\ IdleEs /\
    IdleCf /\ IdleTf /\ IdleWh /\ IdleBt
IdleExceptCf == IdleCli /\ IdleStep2 /\ IdleMf /\ IdleEl /\ IdleMd /\
    IdleGm /\ IdleRs /\ IdleCm /\ IdleTp /\ IdleS3 /\ IdlePx /\ IdleEs /\
    IdleKw /\ IdleTf /\ IdleWh /\ IdleBt
IdleExceptTf == IdleCli /\ IdleStep2 /\ IdleMf /\ IdleEl /\ IdleMd /\
    IdleGm /\ IdleRs /\ IdleCm /\ IdleTp /\ IdleS3 /\ IdlePx /\ IdleEs /\
    IdleKw /\ IdleCf /\ IdleWh /\ IdleBt
IdleExceptWh == IdleCli /\ IdleStep2 /\ IdleMf /\ IdleEl /\ IdleMd /\
    IdleGm /\ IdleRs /\ IdleCm /\ IdleTp /\ IdleS3 /\ IdlePx /\ IdleEs /\
    IdleKw /\ IdleCf /\ IdleTf /\ IdleBt
IdleExceptBt == IdleCli /\ IdleStep2 /\ IdleMf /\ IdleEl /\ IdleMd /\
    IdleGm /\ IdleRs /\ IdleCm /\ IdleTp /\ IdleS3 /\ IdlePx /\ IdleEs /\
    IdleKw /\ IdleCf /\ IdleTf /\ IdleWh
IdleExceptCliCm == IdleStep2 /\ IdleMf /\ IdleEl /\ IdleMd /\ IdleGm /\
    IdleRs /\ IdleTp /\ IdleS3 /\ IdlePx /\ IdleEs /\ IdleKw /\ IdleCf /\
    IdleTf /\ IdleWh /\ IdleBt
IdleExceptStep2S3 == IdleCli /\ IdleMf /\ IdleEl /\ IdleMd /\ IdleGm /\
    IdleRs /\ IdleCm /\ IdleTp /\ IdlePx /\ IdleEs /\ IdleKw /\ IdleCf /\
    IdleTf /\ IdleWh /\ IdleBt
IdleExceptStep2Tf == IdleCli /\ IdleMf /\ IdleEl /\ IdleMd /\ IdleGm /\
    IdleRs /\ IdleCm /\ IdleTp /\ IdleS3 /\ IdlePx /\ IdleEs /\ IdleKw /\
    IdleCf /\ IdleWh /\ IdleBt

\* ================================================== batch_processor_cli.py
FileSizes == {"small", "large"}
ProviderOutcomes == {"ok", "empty", "raise"}
FileText(f) == "text" \o ToString(f)
NoResult == [file_path |-> 0, status |-> "none", transcription |-> NoneVal,
             summary |-> NoneVal, error |-> NoneVal]

\* utils.check_file_constraints, diarize=False: a tuple (ok, message)
check_file_constraints(info) ==
    IF info.size = "large"
    THEN <<FALSE, "file size over limit (max 25MB)">>
    ELSE <<TRUE, "file check passed">>

\* audio2text.gpt4o_stt.transcribe_audio_gpt4o: the text, or an exception
transcribe_audio_gpt4o(f, info) ==
    CASE info.provider = "ok"    -> [raised |-> FALSE, value |-> FileText(f)]
      [] info.provider = "empty" -> [raised |-> FALSE, value |-> ""]
      [] OTHER -> [raised |-> TRUE,
                   value |-> "GPT-4o transcription failed: provider error"]

\* utils.split_large_audio(file_path, max_duration_seconds): both batch
\* processors pass the temporary directory (a non-empty str) as
\* max_duration_seconds; segment_length = str * 1000 is a str, range()
\* raises TypeError, the except returns None (is_none).  With an int or no
\* second argument the file is cut in SEGMENT_LENGTH_MS pieces (n segments).
SEGMENT_LENGTH_MS == 300000
LargeAudioMs == 700000
RECURSIVE RangeCount(_, _, _)
RangeCount(start, stop, step) ==
    IF start >= stop THEN 0 ELSE 1 + RangeCount(start + step, stop, step)
split_large_audio(info, max_duration_seconds) ==
    IF max_duration_seconds = "str" THEN [is_none |-> TRUE, n |-> 0]
    ELSE IF max_duration_seconds = NoneVal /\ info.size = "small"
    THEN [is_none |-> FALSE, n |-> 1]
    ELSE [is_none |-> FALSE,
          n |-> RangeCount(0, LargeAudioMs, SEGMENT_LENGTH_MS)]

\* "\n\n".join(transcriptions) where every segment has the same text
RECURSIVE JoinSegments(_, _, _)
JoinSegments(n, text, sep) ==
    IF n = 0 THEN ""
    ELSE IF n = 1 THEN text
    ELSE JoinSegments(n - 1, text, sep) \o sep \o text

CliFailed(f, err) ==
    [file_path |-> f, status |-> "failed", transcription |-> NoneVal,
     summary |-> NoneVal, error |-> err]

\* BatchProcessor.process_file: the result dict it returns
process_file(f, info) ==
    LET cfc == check_file_constraints(info)
        t   == transcribe_audio_gpt4o(f, info)
    IN  \* size_ok, duration_ok, file_size, duration = check_file_constraints(..)
        IF Len(cfc) < 4
        THEN CliFailed(f, "not enough values to unpack (expected 4, got 2)")
        ELSE IF Len(cfc) > 4
        THEN CliFailed(f, "too many values to unpack (expected 4)")
        ELSE LET size_ok == cfc[1]
                 duration_ok == cfc[2]
                 file_segments == split_large_audio(info, "str")
                 transcription ==
                     IF ~size_ok \/ ~duration_ok
                     THEN JoinSegments(IF Truthy(t.value) THEN file_segments.n
                                       ELSE 0, t.value, "\n\n")
                     ELSE t.value
             IN  IF (~size_ok \/ ~duration_ok) /\ file_segments.is_none
                 THEN CliFailed(f, "'NoneType' object is not iterable")
                 ELSE IF t.raised /\ ((size_ok /\ duration_ok) \/ file_segments.n > 0)
                 THEN CliFailed(f, t.value)
                 ELSE IF Truthy(transcription)
                 THEN [file_path |-> f, status |-> "completed",
                       transcription |-> transcription,
                       summary |-> NoneVal, error |-> NoneVal]
                 ELSE [file_path |-> f, status |-> "failed",
                       transcription |-> transcription,
                       summary |-> NoneVal, error |-> "Transcription failed"]

Files == 1..Len(audio_files)
Running == {f \in Files : future[f] = "running"}

InitCli ==
    /\ cli_pc = "start"
    /\ \E n \in 1..MaxFiles :
          /\ audio_files = [i \in 1..n |-> i]
          /\ file_info \in [1..n -> [size : FileSizes, provider : ProviderOutcomes]]
          /\ save_raises \in SUBSET (1..n)
          /\ future = [i \in 1..n |-> "none"]
          /\ worker_result = [i \in 1..n |-> NoResult]
    /\ max_workers \in 1..MaxWorkers
    /\ results = <<>>
    /\ report = NoneVal
    /\ IdleExceptCli

\* process_batch: every file is submitted to the executor
SubmitAll ==
    /\ cli_pc = "start"
    /\ cli_pc' = "pool"
    /\ future' = [f \in Files |-> "queued"]
    /\ UNCHANGED <<audio_files, file_info, save_raises, max_workers,
                   worker_result, results, report>>

\* a free worker thread takes the oldest queued task
WorkerStart(f) ==
    /\ cli_pc = "pool"
    /\ future[f] = "queued"
    /\ \A g \in Files : g < f => future[g] # "queued"
    /\ Cardinality(Running) < max_workers
    /\ future' = [future EXCEPT ![f] = "running"]
    /\ UNCHANGED <<cli_pc, audio_files, file_info, save_raises, max_workers,
                   worker_result, results, report>>

\* the worker runs process_file to its end
WorkerFinish(f) ==
    /\ cli_pc = "pool"
    /\ future[f] = "running"
    /\ future' = [future EXCEPT ![f] = "finished"]
    /\ worker_result' = [worker_result EXCEPT ![f] = process_file(f, file_info[f])]
    /\ UNCHANGED <<cli_pc, audio_files, file_info, save_raises, max_workers,
                   results, report>>

\* one iteration of "for future in as_completed(future_to_file)"
Collect(f) ==
    /\ cli_pc = "pool"
    /\ future[f] = "finished"
    /\ future' = [future EXCEPT ![f] = "collected"]
    /\ LET result == worker_result[f]
       IN  results' = Append(results,
               IF result.status = "completed" /\ f \in save_raises
               THEN [file_path |-> f, status |-> "failed",
                     transcription |-> NoneVal, summary |-> NoneVal,
                     error |-> "cannot write output file"]
               ELSE result)
    /\ UNCHANGED <<cli_pc, audio_files, file_info, save_raises, max_workers,
                   worker_result, report>>

CountStatus(rs, st) == Cardinality({i \in 1..Len(rs) : rs[i].status = st})

\* BatchProcessor.generate_report, after the pool has shut down
generate_report ==
    /\ cli_pc = "pool"
    /\ \A f \in Files : future[f] = "collected"
    /\ cli_pc' = "done"
    /\ report' = [total_files |-> Len(results),
                  completed |-> CountStatus(results, "completed"),
                  failed |-> CountStatus(results, "failed"),
                  files |-> [i \in 1..Len(results) |->
                               [name |-> results[i].file_path,
                                status |-> results[i].status,
                                error |-> results[i].error]]]
    /\ UNCHANGED <<audio_files, file_info, save_raises, max_workers, future,
                   worker_result, results>>

NextCli ==
    \/ SubmitAll /\ UNCHANGED notCli
    \/ \E f \in Files : WorkerStart(f) /\ UNCHANGED notCli
    \/ \E f \in Files : WorkerFinish(f) /\ UNCHANGED notCli
    \/ \E f \in Files : Collect(f) /\ UNCHANGED notCli
    \/ generate_report /\ UNCHANGED notCli

SpecCli == InitCli /\ [][NextCli]_vars

FailingFiles == {f \in Files : file_info[f].provider # "ok"}

\* C1: in a batch where the files of F fail on every attempt and every other
\* file transcribes (and is saved) successfully, every file is processed, the
\* report has completed = N - |F| and failed = |F|, and every file of F is
\* listed in the report with its error text.
C1_BatchPartialFailure ==
    (cli_pc = "done" /\ save_raises = {}
        /\ \A f \in Files : file_info[f].size = "small") =>
       /\ report.total_files = Len(audio_files)
       /\ report.completed = Len(audio_files) - Cardinality(FailingFiles)
       /\ report.failed = Cardinality(FailingFiles)
       /\ \A f \in FailingFiles : \E i \in 1..Len(report.files) :
             /\ report.files[i].name = f
             /\ report.files[i].status = "failed"
             /\ Truthy(report.files[i].error)
\* ===================================================== main_app.py, Step 2
MaxDurSec == 1900
FracMs == {0, 3, 500, 999}
Step2Durations == {300000, 600000, 900003, 1250000}
SplitDurations ==
    {n \in {sec * 1000 + f : sec \in 600..MaxDurSec, f \in FracMs} : n > 600000}

MAX_SEGMENT_DURATION == 600
OVERLAP_DURATION == 30
MAX_RETRIES_Mutant == 3 + 1
MAX_RETRIES == 3
RetrySleepSeconds == 3

Services == {"Whisper", "ElevenLabs", "OpenAI 2025 New"}
\* the names main_app.py binds at module level (imports and defs) that the
\* Step 2 handler looks up
main_app_names == {"OpenAI", "AudioSegment", "get_model_description",
                   "refine_transcript", "convert_file_to_markdown"}

Min(a, b) == IF a < b THEN a ELSE b

RECURSIVE FloorLog2(_)
FloorLog2(n) == IF n <= 1 THEN 0 ELSE 1 + FloorLog2(n \div 2)
RECURSIVE Pow2(_)
Pow2(k) == IF k <= 0 THEN 1 ELSE 2 * Pow2(k - 1)
RECURSIVE Pow2Mod1000(_)
Pow2Mod1000(k) == IF k = 0 THEN 1 ELSE (2 * Pow2Mod1000(k - 1)) % 1000

\* int(x * 1000) for the float x = ms / 1000 (IEEE-754 binary64, round to
\* nearest even).  x is ms/1000 rounded to 53 bits; R is the remainder of
\* that division in units of 2^-k/1000.  When the quotient was rounded down
\* the exact product is ms - R * 2^-k, which rounds to a double below ms
\* (and int() truncates it to ms - 1) when it is more than half a unit in
\* the last place of ms below it.
IntMs(ms) ==
    IF ms < 1000 \/ ms % 1000 = 0 THEN ms
    ELSE LET e_d == FloorLog2(ms \div 1000)
             e_n == IF Pow2(FloorLog2(ms)) = ms THEN FloorLog2(ms) - 1
                    ELSE FloorLog2(ms)
             R   == ((ms % 1000) * Pow2Mod1000(52 - e_d)) % 1000
         IN  IF R > 0 /\ R < 500 /\ R > Pow2(e_n - e_d - 1)
             THEN ms - 1 ELSE ms

SegText(i) == "seg" \o ToString(i)

\* sep.join(seq)
RECURSIVE Join(_, _)
Join(seq, sep) ==
    IF Len(seq) = 0 THEN ""
    ELSE IF Len(seq) = 1 THEN seq[1]
    ELSE Join(SubSeq(seq, 1, Len(seq) - 1), sep) \o sep \o seq[Len(seq)]

WholeFile == [from |-> 0, to |-> 0, whole |-> TRUE]

InitStep2Locals ==
    /\ start_time = 0 /\ segments = <<>> /\ audio_segments = <<>>
    /\ seg_i = 0 /\ retry_count = 0 /\ failed = FALSE
    /\ segment_results = <<>> /\ attempt_log = <<>>
    /\ full_transcript = "" /\ st_errors = <<>>

InitStep2 ==
    /\ s2_pc = "start"
    /\ transcription_service \in Services
    /\ openai_api_key \in {"", "sk-key"}
    /\ elevenlabs_api_key \in {"", "xi-key"}
    /\ audio_ok \in BOOLEAN
    /\ duration_ms \in Step2Durations
    /\ transcribed_text \in {"", "old text"}
    /\ InitStep2Locals
    /\ IdleExceptStep2

\* the state at the top of the splitting loop of an OpenAI transcription
InitSplit ==
    /\ s2_pc = "split"
    /\ transcription_service = "OpenAI 2025 New"
    /\ openai_api_key = "sk-key"
    /\ elevenlabs_api_key = ""
    /\ audio_ok = TRUE
    /\ duration_ms \in SplitDurations
    /\ transcribed_text = ""
    /\ InitStep2Locals
    /\ IdleExceptStep2

\* "if uploaded_file and transcribe_button": key checks, temporary copy of
\* the upload, decoding and the choice between splitting and one segment
Step2Start ==
    /\ s2_pc = "start"
    /\ IF transcription_service = "OpenAI 2025 New" /\ openai_api_key = ""
       THEN /\ st_errors' = Append(st_errors, "please provide the OpenAI API key")
            /\ s2_pc' = "done"
            /\ UNCHANGED <<start_time, segments, audio_segments, full_transcript>>
       ELSE IF transcription_service = "ElevenLabs" /\ elevenlabs_api_key = ""
       THEN /\ st_errors' = Append(st_errors, "please provide the ElevenLabs API key")
            /\ s2_pc' = "done"
            /\ UNCHANGED <<start_time, segments, audio_segments, full_transcript>>
       ELSE /\ full_transcript' = ""
            /\ st_errors' = st_errors
            /\ IF audio_ok /\ duration_ms > MAX_SEGMENT_DURATION * 1000
               THEN /\ segments' = <<>>
                    /\ start_time' = 0
                    /\ s2_pc' = "split"
                    /\ UNCHANGED audio_segments
               ELSE /\ audio_segments' = <<WholeFile>>
                    /\ s2_pc' = "loop"
                    /\ UNCHANGED <<start_time, segments>>
    /\ UNCHANGED <<transcription_service, openai_api_key, elevenlabs_api_key,
                   audio_ok, duration_ms, seg_i, retry_count, failed,
                   segment_results, attempt_log, transcribed_text>>

\* the window taken as segment length plus overlap
SplitIter_Mutant ==
    /\ s2_pc = "split"
    /\ start_time < duration_ms
    /\ LET end_time == Min(start_time + (MAX_SEGMENT_DURATION + OVERLAP_DURATION) * 1000,
                           duration_ms)
           segment_start == IF start_time > 0
                            THEN start_time - OVERLAP_DURATION * 1000
                            ELSE start_time
       IN  /\ segments' = Append(segments,
                  [from |-> Min(IntMs(segment_start), duration_ms),
                   to |-> Min(IntMs(end_time), duration_ms),
                   whole |-> FALSE])
           /\ start_time' = end_time
    /\ UNCHANGED <<s2_pc, transcription_service, openai_api_key,
                   elevenlabs_api_key, audio_ok, duration_ms, audio_segments,
                   seg_i, retry_count, failed, segment_results, attempt_log,
                   full_transcript, transcribed_text, st_errors>>

\* one iteration of "while start_time < duration_seconds"
SplitIter ==
    /\ s2_pc = "split"
    /\ start_time < duration_ms
    /\ LET end_time == Min(start_time + MAX_SEGMENT_DURATION * 1000, duration_ms)
           segment_start == IF start_time > 0
                            THEN start_time - OVERLAP_DURATION * 1000
                            ELSE start_time
       IN  /\ segments' = Append(segments,
                  [from |-> Min(IntMs(segment_start), duration_ms),
                   to |-> Min(IntMs(end_time), duration_ms),
                   whole |-> FALSE])
           /\ start_time' = end_time
    /\ UNCHANGED <<s2_pc, transcription_service, openai_api_key,
                   elevenlabs_api_key, audio_ok, duration_ms, audio_segments,
                   seg_i, retry_count, failed, segment_results, attempt_log,
                   full_transcript, transcribed_text, st_errors>>

\* the splitting loop ends: audio_segments = segments
SplitDone ==
    /\ s2_pc = "split"
    /\ ~(start_time < duration_ms)
    /\ audio_segments' = segments
    /\ s2_pc' = "loop"
    /\ UNCHANGED <<transcription_service, openai_api_key, elevenlabs_api_key,
                   audio_ok, duration_ms, start_time, segments, seg_i,
                   retry_count, failed, segment_results, attempt_log,
                   full_transcript, transcribed_text, st_errors>>

\* top of "for i, segment_path in enumerate(audio_segments)": dispatch on the
\* provider.  A name the module never bound raises NameError, which the
\* "except Exception" around the loop reports, leaving full_transcript "".
SegmentBegin ==
    /\ s2_pc = "loop"
    /\ seg_i < Len(audio_segments)
    /\ LET callee == CASE transcription_service = "Whisper" -> "transcribe_audio_whisper"
                       [] transcription_service = "ElevenLabs" -> "transcribe_audio_elevenlabs"
                       [] OTHER -> "OpenAI"
       IN  IF callee \notin main_app_names
           THEN /\ st_errors' = Append(st_errors,
                      "processing failed: name '" \o callee \o "' is not defined")
                /\ s2_pc' = "result"
                /\ UNCHANGED <<retry_count, failed>>
           ELSE IF transcription_service = "OpenAI 2025 New"
           THEN /\ retry_count' = 0
                /\ failed' = TRUE
                /\ s2_pc' = "attempt"
                /\ UNCHANGED st_errors
           ELSE \* result = transcribe_audio_...(..): the value is not stored
                /\ s2_pc' = "segend"
                /\ failed' = FALSE
                /\ UNCHANGED <<retry_count, st_errors>>
    /\ UNCHANGED <<transcription_service, openai_api_key, elevenlabs_api_key,
                   audio_ok, duration_ms, start_time, segments, audio_segments,
                   seg_i, segment_results, attempt_log, full_transcript,
                   transcribed_text>>

\* one pass of "while retry_count < MAX_RETRIES": the submission, and on an
\* exception the handler with its sleep
Attempt ==
    /\ s2_pc = "attempt"
    /\ retry_count < MAX_RETRIES
    /\ \E outcome \in {"ok", "empty", "raise"} :
          IF outcome # "raise"
          THEN /\ segment_results' = Append(segment_results,
                      IF outcome = "ok" THEN SegText(seg_i) ELSE "")
               /\ attempt_log' = Append(attempt_log,
                      [seg |-> seg_i, kind |-> "submit", ok |-> TRUE, secs |-> 0,
                       text |-> IF outcome = "ok" THEN SegText(seg_i) ELSE ""])
               /\ failed' = FALSE
               /\ s2_pc' = "segend"
               /\ UNCHANGED retry_count
          ELSE /\ retry_count' = retry_count + 1
               /\ attempt_log' =
                     LET submitted == Append(attempt_log,
                            [seg |-> seg_i, kind |-> "submit", ok |-> FALSE, secs |-> 0,
                             text |-> ""])
                     IN  IF retry_count + 1 < MAX_RETRIES
                         THEN Append(submitted, [seg |-> seg_i, kind |-> "sleep",
                                     ok |-> FALSE, secs |-> RetrySleepSeconds,
                                     text |-> ""])
                         ELSE submitted
               /\ s2_pc' = IF retry_count + 1 < MAX_RETRIES THEN "attempt" ELSE "segend"
               /\ UNCHANGED <<segment_results, failed>>
    /\ UNCHANGED <<transcription_service, openai_api_key, elevenlabs_api_key,
                   audio_ok, duration_ms, start_time, segments, audio_segments,
                   seg_i, full_transcript, transcribed_text, st_errors>>

\* "if failed: segment_results.append('')"
AfterRetries_Skip(res, is_failed) == res
AfterRetries(res, is_failed) ==
    IF is_failed THEN Append(res, "") ELSE res

\* the end of one loop body: placeholder, progress, cleanup, next i
SegmentEnd ==
    /\ s2_pc = "segend"
    /\ segment_results' = IF transcription_service = "OpenAI 2025 New"
                          THEN AfterRetries(segment_results, failed)
                          ELSE segment_results
    /\ seg_i' = seg_i + 1
    /\ s2_pc' = "loop"
    /\ UNCHANGED <<transcription_service, openai_api_key, elevenlabs_api_key,
                   audio_ok, duration_ms, start_time, segments, audio_segments,
                   retry_count, failed, attempt_log, full_transcript,
                   transcribed_text, st_errors>>

\* after the loop: full_transcript = " ".join(segment_results)
Merge ==
    /\ s2_pc = "loop"
    /\ seg_i = Len(audio_segments)
    /\ full_transcript' = Join(segment_results, " ")
    /\ s2_pc' = "result"
    /\ UNCHANGED <<transcription_service, openai_api_key, elevenlabs_api_key,
                   audio_ok, duration_ms, start_time, segments, audio_segments,
                   seg_i, retry_count, failed, segment_results, attempt_log,
                   transcribed_text, st_errors>>

\* "if full_transcript: session.transcribed_text = ..; rerun  else: error"
StoreResult ==
    /\ s2_pc = "result"
    /\ IF full_transcript # ""
       THEN /\ transcribed_text' = full_transcript
            /\ UNCHANGED st_errors
       ELSE /\ st_errors' = Append(st_errors, "transcription failed")
            /\ UNCHANGED transcribed_text
    /\ s2_pc' = "done"
    /\ UNCHANGED <<transcription_service, openai_api_key, elevenlabs_api_key,
                   audio_ok, duration_ms, start_time, segments, audio_segments,
                   seg_i, retry_count, failed, segment_results, attempt_log,
                   full_transcript>>

NextStep2 ==
    \/ Step2Start /\ UNCHANGED notStep2
    \/ SplitIter /\ UNCHANGED notStep2
    \/ SplitDone /\ UNCHANGED notStep2
    \/ SegmentBegin /\ UNCHANGED notStep2
    \/ Attempt /\ UNCHANGED notStep2
    \/ SegmentEnd /\ UNCHANGED notStep2
    \/ Merge /\ UNCHANGED notStep2
    \/ StoreResult /\ UNCHANGED notStep2

SpecStep2 == InitStep2 /\ [][NextStep2]_vars

NextSplit ==
    \/ SplitIter /\ UNCHANGED notStep2
    \/ SplitDone /\ UNCHANGED notStep2

SpecSplit == InitSplit /\ [][NextSplit]_vars
\* ------------------------------------------------------- claims on Step 2
SubmitsOf(j) == {k \in 1..Len(attempt_log) :
                    attempt_log[k].kind = "submit" /\ attempt_log[k].seg = j}
Exhausted(j) == Cardinality(SubmitsOf(j)) = 3
                   /\ \A k \in SubmitsOf(j) : ~attempt_log[k].ok
SegmentIndexes == 0..(Len(audio_segments) - 1)

\* C2: on the OpenAI path a segment is submitted at most 3 times, a failed
\* submission that is followed by another one is separated from it by one
\* 3-second sleep (and nothing sleeps otherwise), and after 3 failures the
\* segment's entry is the empty string and the loop goes on to the next
\* segment: the action ends with one entry per segment, none skipped.
C2_SegmentRetry ==
    /\ \A j \in SegmentIndexes : Cardinality(SubmitsOf(j)) <= 3
    /\ \A k \in 1..Len(attempt_log) :
          /\ attempt_log[k].kind = "sleep" =>
                /\ attempt_log[k].secs = 3
                /\ k > 1 /\ attempt_log[k - 1].kind = "submit"
                /\ ~attempt_log[k - 1].ok
                /\ attempt_log[k - 1].seg = attempt_log[k].seg
          /\ (attempt_log[k].kind = "submit" /\ k > 1
                /\ attempt_log[k - 1].seg = attempt_log[k].seg) =>
                /\ attempt_log[k - 1].kind = "sleep"
                /\ k > 2 /\ attempt_log[k - 2].kind = "submit"
    /\ \A j \in SegmentIndexes :
          (Exhausted(j) /\ seg_i > j) => segment_results[j + 1] = ""
    /\ (s2_pc \in {"result", "done"} /\ transcription_service = "OpenAI 2025 New"
          /\ audio_segments # <<>>) =>
          /\ Len(segment_results) = Len(audio_segments)
          /\ \A j \in SegmentIndexes : SubmitsOf(j) # {}

\* a segment failed three times and a later segment was still transcribed
C2_Witness ==
    /\ s2_pc = "done"
    /\ \E j \in SegmentIndexes : /\ Exhausted(j)
                                 /\ j + 1 \in SegmentIndexes
                                 /\ segment_results[j + 2] = SegText(j + 1)

\* head-first concatenation of the entries with the single-space separator
RECURSIVE ConcatAscending(_)
ConcatAscending(seq) ==
    IF seq = <<>> THEN ""
    ELSE IF Len(seq) = 1 THEN seq[1]
    ELSE seq[1] \o " " \o ConcatAscending(Tail(seq))

\* what the provider returned for segment j: the text of its successful
\* submission, the empty string when it has none
ResultOfSegment(j) ==
    IF \E k \in SubmitsOf(j) : attempt_log[k].ok
    THEN attempt_log[CHOOSE k \in SubmitsOf(j) : attempt_log[k].ok].text
    ELSE ""

\* C3: once the loop has handled segments 0..i the result list has exactly
\* i+1 entries, entry j is the result of segment j (empty for a failed
\* segment), and the merged transcript is the entries joined in ascending
\* segment order.
C3_ResultsInEnumerationOrder ==
    /\ s2_pc = "loop" =>
          /\ Len(segment_results) = seg_i
          /\ \A j \in 0..(seg_i - 1) : segment_results[j + 1] = ResultOfSegment(j)
    /\ (s2_pc \in {"result", "done"} /\ audio_segments # <<>>
          /\ seg_i = Len(audio_segments)) =>
          /\ Len(segment_results) = Len(audio_segments)
          /\ full_transcript = ConcatAscending(
                [j \in 1..Len(audio_segments) |-> ResultOfSegment(j - 1)])

\* three segments handled, the middle one failed, and the merge happened
C3_Witness ==
    /\ s2_pc = "result"
    /\ Len(audio_segments) = 3
    /\ segment_results = <<SegText(0), "", SegText(2)>>
    /\ full_transcript = "seg0  seg2"

AdapterAlwaysSucceeded ==
    \A k \in 1..Len(attempt_log) :
       attempt_log[k].kind = "submit" => attempt_log[k].ok /\ attempt_log[k].text # ""

\* C5: for each provider, when the adapter succeeds on every segment the
\* action ends with transcribed_text set to the concatenated transcript.
C5_TranscriptStored ==
    (s2_pc = "done" /\ audio_segments # <<>> /\ AdapterAlwaysSucceeded) =>
       transcribed_text = ConcatAscending(
             [j \in 1..Len(audio_segments) |-> SegText(j - 1)])

\* C4: for every duration above 600 s the exported slices start in ascending
\* order at 0 and leave no gap up to the end of the audio.
C4_SplitCoversAudio ==
    (s2_pc = "loop" /\ duration_ms > 600000) =>
       /\ Len(segments) >= 1
       /\ segments[1].from = 0
       /\ \A k \in 1..(Len(segments) - 1) :
             /\ segments[k].from < segments[k + 1].from
             /\ segments[k + 1].from <= segments[k].to
       /\ segments[Len(segments)].to >= duration_ms
\* ================================= multi_file_processor.process_single_file
InitMulti ==
    /\ mf_pc = "loop"
    /\ mf_info \in [size : FileSizes]
    /\ mf_max_retries \in 1..MaxRetries
    /\ mf_retry = 0
    /\ mf_result = [status |-> "processing", transcription |-> NoneVal,
                    summary |-> NoneVal, error |-> NoneVal, retries |-> 0]
    /\ mf_log = <<>>
    /\ IdleExceptMf

\* wait_time = 2 ** retry
BackoffSeconds(retry) == Pow2(retry)

\* what one pass of the try block ends with: the adapter's answer for a file
\* within the size limit; for a larger file split_large_audio returns None
\* and enumerate(None) raises TypeError
AttemptOutcome(info, provider) ==
    LET cfc == check_file_constraints(info)
        size_ok == info.size = "small"
        file_segments == split_large_audio(info, "str")
        t == transcribe_audio_gpt4o(1, [size |-> info.size, provider |-> provider])
    IN  IF Len(cfc) # 2
        THEN [raised |-> TRUE, value |-> "cannot unpack check_file_constraints"]
        ELSE IF ~size_ok /\ file_segments.is_none
        THEN [raised |-> TRUE, value |-> "'NoneType' object is not iterable"]
        ELSE IF ~size_ok /\ ~t.raised
        THEN [raised |-> FALSE,
              value |-> JoinSegments(IF Truthy(t.value) THEN file_segments.n ELSE 0,
                                     t.value, "\n\n")]
        ELSE t

\* one pass of "for retry in range(max_retries)"
MfAttempt ==
    /\ mf_pc = "loop"
    /\ mf_retry < mf_max_retries
    /\ \E provider \in ProviderOutcomes, summary \in {NoneVal, "summary"} :
          LET a == AttemptOutcome(mf_info, provider)
              more == mf_retry + 1 < mf_max_retries
              tried == Append(mf_log, [kind |-> "attempt", retry |-> mf_retry,
                                       ok |-> ~a.raised /\ Truthy(a.value),
                                       raised |-> a.raised, secs |-> 0,
                                       provider |-> provider])
          IN  IF a.raised
              THEN \* except Exception as e
                   /\ mf_result' = [mf_result EXCEPT
                          !.error = a.value,
                          !.retries = mf_retry + 1,
                          !.status = IF mf_retry < mf_max_retries - 1
                                     THEN @ ELSE "failed"]
                   /\ mf_log' = IF mf_retry < mf_max_retries - 1
                                THEN Append(tried,
                                       [kind |-> "sleep", retry |-> mf_retry,
                                        ok |-> FALSE, raised |-> FALSE,
                                        secs |-> BackoffSeconds(mf_retry),
                                        provider |-> provider])
                                ELSE tried
                   /\ mf_retry' = mf_retry + 1
                   /\ mf_pc' = IF more THEN "loop" ELSE "done"
              ELSE IF Truthy(a.value)
              THEN \* status completed, break
                   /\ mf_result' = [mf_result EXCEPT
                          !.transcription = a.value,
                          !.summary = summary,
                          !.status = "completed"]
                   /\ mf_log' = tried
                   /\ mf_retry' = mf_retry
                   /\ mf_pc' = "done"
              ELSE \* empty transcription: failed, the loop goes on at once
                   /\ mf_result' = [mf_result EXCEPT
                          !.transcription = a.value,
                          !.status = "failed",
                          !.error = "Transcription failed"]
                   /\ mf_log' = tried
                   /\ mf_retry' = mf_retry + 1
                   /\ mf_pc' = IF more THEN "loop" ELSE "done"
    /\ UNCHANGED <<mf_info, mf_max_retries>>

NextMulti == MfAttempt /\ UNCHANGED notMf

SpecMulti == InitMulti /\ [][NextMulti]_vars

MfAttempts == {k \in 1..Len(mf_log) : mf_log[k].kind = "attempt"}

\* C6: at most max_retries attempts; a failed attempt r that is not the last
\* one is followed by a wait of 2^r seconds before the next attempt; the
\* first successful attempt sets status completed and ends the loop; when the
\* last attempt fails the status is failed.
C6_RetryWithBackoff ==
    /\ Cardinality(MfAttempts) <= mf_max_retries
    /\ \A k \in MfAttempts :
          (~mf_log[k].ok /\ mf_log[k].retry < mf_max_retries - 1) =>
             /\ k < Len(mf_log)
             /\ mf_log[k + 1].kind = "sleep"
             /\ mf_log[k + 1].secs = Pow2(mf_log[k].retry)
    /\ \A k \in MfAttempts :
          mf_log[k].ok => /\ k = Len(mf_log)
                          /\ mf_pc = "done"
                          /\ mf_result.status = "completed"
    /\ (mf_pc = "done" /\ ~mf_log[Len(mf_log)].ok) => mf_result.status = "failed"

\* the segments a file over the limit is cut into
LargeFileSegments == RangeCount(0, LargeAudioMs, SEGMENT_LENGTH_MS)

\* C19: for a file over the 25 MB limit, an attempt during which the GPT-4o
\* adapter answers every segment succeeds, and the file's transcription is
\* the segment transcripts joined in segment order.
C19_LargeFileSplitAndJoined ==
    mf_info.size = "large" =>
        \A k \in MfAttempts :
            mf_log[k].provider = "ok" =>
                /\ mf_log[k].ok
                /\ mf_result.status = "completed"
                /\ mf_result.transcription =
                       JoinSegments(LargeFileSegments, FileText(1), "\n\n")

\* ================= audio2text/elevenlabs_stt.transcribe_audio_elevenlabs
InitEleven ==
    /\ el_pc = "loop"
    /\ el_max_retries \in 1..MaxElevenRetries
    /\ el_attempt = 0
    /\ el_log = <<>>
    /\ el_return = "unset"
    /\ IdleExceptEl

\* wait_time = min((attempt + 1) * 5, 30)
wait_time_Mutant(attempt) == Min(attempt * 5, 30)
wait_time(attempt) == Min((attempt + 1) * 5, 30)

\* one pass of "for attempt in range(max_retries)": the SDK call returns a
\* response with a text attribute, one without, or raises
ElAttempt ==
    /\ el_pc = "loop"
    /\ el_attempt < el_max_retries
    /\ \E outcome \in {"text", "raw", "raise"} :
          LET tried == Append(el_log, [kind |-> "attempt", attempt |-> el_attempt,
                                       ok |-> outcome # "raise", secs |-> 0])
          IN  IF outcome # "raise"
              THEN /\ el_return' = IF outcome = "text" THEN "dict" ELSE "response"
                   /\ el_log' = tried
                   /\ el_pc' = "returned"
                   /\ UNCHANGED el_attempt
              ELSE IF el_attempt < el_max_retries - 1
              THEN /\ el_log' = Append(tried,
                          [kind |-> "sleep", attempt |-> el_attempt,
                           ok |-> FALSE, secs |-> wait_time(el_attempt)])
                   /\ el_attempt' = el_attempt + 1
                   /\ UNCHANGED <<el_pc, el_return>>
              ELSE /\ el_return' = NoneVal
                   /\ el_log' = tried
                   /\ el_pc' = "returned"
                   /\ UNCHANGED el_attempt
    /\ UNCHANGED el_max_retries

NextEleven == ElAttempt /\ UNCHANGED notEl

SpecEleven == InitEleven /\ [][NextEleven]_vars

ElAttempts == {k \in 1..Len(el_log) : el_log[k].kind = "attempt"}
ElFailures == {k \in ElAttempts : ~el_log[k].ok}

\* C7: with the default max_retries = 5 the adapter makes at most 5 attempts;
\* the k-th failed attempt, k = 1..4, is followed by a wait of min(5k, 30)
\* seconds (5, 10, 15, 20) and then by the next attempt; no wait is longer
\* than 30 seconds whatever max_retries is; a successful attempt returns its
\* result at once; after the 5th failure the adapter returns None.
C7_ElevenLabsRetry ==
    /\ \A k \in 1..Len(el_log) : el_log[k].kind = "sleep" => el_log[k].secs <= 30
    /\ el_max_retries = 5 =>
          /\ Cardinality(ElAttempts) <= 5
          /\ \A k \in ElFailures :
                LET nth == Cardinality({j \in ElFailures : j <= k})
                IN  IF nth <= 4
                    THEN /\ k < Len(el_log)
                         /\ el_log[k + 1].kind = "sleep"
                         /\ el_log[k + 1].secs = <<5, 10, 15, 20>>[nth]
                         /\ el_pc = "loop"
                              \/ (k + 2 <= Len(el_log) /\ el_log[k + 2].kind = "attempt")
                    ELSE /\ k = Len(el_log)
                         /\ el_pc = "returned"
                         /\ el_return = NoneVal
          /\ \A k \in ElAttempts :
                el_log[k].ok => /\ k = Len(el_log)
                                /\ el_pc = "returned"
                                /\ el_return \in {"dict", "response"}
          /\ el_pc = "returned" =>
                (el_return = NoneVal <=> Cardinality(ElFailures) = 5)

\* four failures with waits 5, 10, 15, 20 and a fifth failure returning None
C7_Witness ==
    /\ el_max_retries = 5
    /\ el_pc = "returned"
    /\ el_return = NoneVal
    /\ Cardinality(ElFailures) = 5
    /\ [k \in 1..4 |-> el_log[2 * k].secs] = <<5, 10, 15, 20>>
\* ============================ markitdown_utils.convert_file_to_markdown
\* from "md_kwargs = {'enable_plugins': True}" on
ConstructOutcomes == {"ok", "magika_json", "other"}
ConvertOutcomes == {"text", "empty", "raise"}

InitMarkItDown ==
    /\ md_pc = "construct"
    /\ md_llm_client \in BOOLEAN
    /\ md_attempt = 0
    /\ md = "none"
    /\ md_log = <<>>
    /\ md_return = "unset"
    /\ IdleExceptMd

LlmKwargs(llm_client) == IF llm_client THEN {"llm_client", "llm_model"} ELSE {}
md_kwargs(llm_client) == {"enable_plugins"} \cup LlmKwargs(llm_client)
md_kwargs_simple_Mutant(llm_client) == md_kwargs(llm_client)
md_kwargs_simple(llm_client) == LlmKwargs(llm_client)

\* "magika" in error_msg.lower() and "json" in error_msg.lower()
IsMagikaError(outcome) == outcome = "magika_json"

MdEvent(kind, kwargs, outcome) ==
    [kind |-> kind, kwargs |-> kwargs, outcome |-> outcome]
MdFailure == [success |-> FALSE, text |-> "", info |-> "error"]

\* one pass of "for attempt in range(max_retries)" with max_retries = 2:
\* the full construction and, on the broken-dependency signature, the
\* reinstall and the construction in reduced mode
MdConstruct ==
    /\ md_pc = "construct"
    /\ md_attempt < 2
    /\ \E full \in ConstructOutcomes, repaired \in BOOLEAN,
          simple \in ConstructOutcomes :
          LET c1 == Append(md_log, MdEvent("construct", md_kwargs(md_llm_client), full))
              c2 == IF md_attempt = 0
                    THEN Append(c1, MdEvent("reinstall", {},
                                            IF repaired THEN "ok" ELSE "failed"))
                    ELSE c1
              c3 == Append(c2, MdEvent("construct",
                                       md_kwargs_simple(md_llm_client), simple))
          IN  IF full = "ok"
              THEN /\ md' = "full"
                   /\ md_log' = c1
                   /\ md_pc' = "convert"
                   /\ UNCHANGED <<md_attempt, md_return>>
              ELSE IF IsMagikaError(full)
              THEN IF md_attempt = 0 /\ repaired
                   THEN \* continue
                        /\ md_log' = c2
                        /\ md_attempt' = md_attempt + 1
                        /\ UNCHANGED <<md, md_pc, md_return>>
                   ELSE IF simple = "ok"
                   THEN /\ md' = "reduced"
                        /\ md_log' = c3
                        /\ md_pc' = "convert"
                        /\ UNCHANGED <<md_attempt, md_return>>
                   ELSE IF md_attempt = 2 - 1
                   THEN \* raise e, caught by the outer except
                        /\ md_log' = c3
                        /\ md_return' = MdFailure
                        /\ md_pc' = "returned"
                        /\ UNCHANGED <<md, md_attempt>>
                   ELSE /\ md_log' = c3
                        /\ md_attempt' = md_attempt + 1
                        /\ UNCHANGED <<md, md_pc, md_return>>
              ELSE IF md_attempt = 2 - 1
              THEN /\ md_log' = c1
                   /\ md_return' = MdFailure
                   /\ md_pc' = "returned"
                   /\ UNCHANGED <<md, md_attempt>>
              ELSE /\ md_log' = c1
                   /\ md_attempt' = md_attempt + 1
                   /\ UNCHANGED <<md, md_pc, md_return>>
    /\ UNCHANGED md_llm_client

\* "if md is None: raise", md.convert and the returned triple
MdConvert ==
    /\ md_pc = "convert"
    /\ \E outcome \in ConvertOutcomes :
          /\ md_log' = IF md = "none" THEN md_log
                       ELSE Append(md_log, MdEvent("convert", {}, outcome))
          /\ md_return' = IF md # "none" /\ outcome = "text"
                          THEN [success |-> TRUE, text |-> "markdown", info |-> "info"]
                          ELSE MdFailure
    /\ md_pc' = "returned"
    /\ UNCHANGED <<md_llm_client, md_attempt, md>>

NextMarkItDown ==
    \/ MdConstruct /\ UNCHANGED notMd
    \/ MdConvert /\ UNCHANGED notMd

SpecMarkItDown == InitMarkItDown /\ [][NextMarkItDown]_vars

MdReinstalls == {k \in 1..Len(md_log) : md_log[k].kind = "reinstall"}
Converted == \E k \in 1..Len(md_log) : md_log[k].kind = "convert"

\* C8: when the first construction fails with the broken-dependency
\* signature the repair is attempted, once; after a successful repair the
\* next call is a construction with the full configuration; after a failed
\* repair the next call is a construction without the plugin option, and
\* when that one succeeds the engine is the reduced one and the conversion
\* is run with it.
C8_RepairThenReducedMode ==
    /\ Cardinality(MdReinstalls) <= 1
    /\ (Len(md_log) >= 1 /\ IsMagikaError(md_log[1].outcome)) =>
          /\ Len(md_log) >= 2
          /\ md_log[2].kind = "reinstall"
          /\ md_log[2].outcome = "ok" =>
                /\ md_attempt >= 1
                /\ Len(md_log) >= 3 =>
                      /\ md_log[3].kind = "construct"
                      /\ "enable_plugins" \in md_log[3].kwargs
          /\ md_log[2].outcome = "failed" =>
                /\ Len(md_log) >= 3
                /\ md_log[3].kind = "construct"
                /\ "enable_plugins" \notin md_log[3].kwargs
                /\ md_log[3].outcome = "ok" =>
                      /\ md = "reduced"
                      /\ md_pc \in {"convert", "returned"}
                      /\ md_pc = "returned" => Converted /\ Len(md_log) = 4

\* the repair failed, the reduced engine was built and converted the file
C8_Witness ==
    /\ md_pc = "returned"
    /\ Len(md_log) = 4
    /\ IsMagikaError(md_log[1].outcome)
    /\ md_log[2].outcome = "failed"
    /\ md_log[3].outcome = "ok"
    /\ md = "reduced"
    /\ md_return.success

\* the repair succeeded and the second full construction built the engine
C8_WitnessRepaired ==
    /\ md_pc = "returned"
    /\ Len(md_log) = 4
    /\ md_log[2].outcome = "ok"
    /\ md_log[3].outcome = "ok"
    /\ md = "full"
    /\ md_return.success
\* =============== main_app.refine_transcript_gemini: parsing of the response
\* A response is a sequence of tokens: the marker "[corrected]" stands for
\* the bracketed corrected-text marker, "[summary]" for the bracketed summary
\* marker, "summary:" for the legacy marker (the summary heading followed by
\* a full-width colon), " " for whitespace and "a", "b" for other text.  No
\* marker is a substring of another or overlaps one, so str.split and "in"
\* act on them as on tokens.
CorrectedMarker == "[corrected]"
SummaryMarker == "[summary]"
LegacyMarker == "summary:"
Blank == " "
Tokens == {CorrectedMarker, SummaryMarker, LegacyMarker, Blank, "a", "b"}
SummaryUnavailable == <<"<summary unavailable>">>

RECURSIVE SeqsUpTo(_)
SeqsUpTo(n) ==
    IF n = 0 THEN {<<>>}
    ELSE LET shorter == SeqsUpTo(n - 1)
         IN  shorter \cup {Append(t, c) : t \in {u \in shorter : Len(u) = n - 1},
                                           c \in Tokens}

\* marker in text
Contains(text, marker) == \E i \in 1..Len(text) : text[i] = marker
FirstIndex(text, marker) ==
    CHOOSE i \in 1..Len(text) :
       text[i] = marker /\ \A j \in 1..(i - 1) : text[j] # marker

\* text.split(marker): the pieces between all occurrences of the marker
RECURSIVE Split(_, _)
Split(text, marker) ==
    IF ~Contains(text, marker) THEN <<text>>
    ELSE LET i == FirstIndex(text, marker)
         IN  <<SubSeq(text, 1, i - 1)>>
                \o Split(SubSeq(text, i + 1, Len(text)), marker)

\* text.strip()
RECURSIVE Strip(_)
Strip(text) ==
    IF text = <<>> THEN text
    ELSE IF text[1] = Blank THEN Strip(Tail(text))
    ELSE IF text[Len(text)] = Blank THEN Strip(SubSeq(text, 1, Len(text) - 1))
    ELSE text

GmNone == [is_none |-> TRUE, corrected |-> <<>>, summary |-> <<>>]
GmDict(corrected, summary) ==
    [is_none |-> FALSE, corrected |-> corrected, summary |-> summary]

\* the parsing of response.text, inside "try: ... except Exception: return None"
ParseResponse(text) ==
    IF Contains(text, CorrectedMarker) /\ Contains(text, SummaryMarker)
    THEN LET parts == Split(text, SummaryMarker)
             head == Split(parts[1], CorrectedMarker)
         IN  IF Len(head) < 2
             THEN GmNone          \* IndexError on [1], caught: return None
             ELSE GmDict(Strip(head[2]), Strip(parts[2]))
    ELSE LET parts == Split(text, LegacyMarker)
         IN  IF Len(parts) >= 2
             THEN GmDict(Strip(parts[1]), Strip(parts[2]))
             ELSE GmDict(text, SummaryUnavailable)

InitGemini ==
    /\ gm_pc = "response"
    /\ response_text \in SeqsUpTo(MaxResponseLen)
    /\ gm_return = "unset"
    /\ IdleExceptGm

GmParse ==
    /\ gm_pc = "response"
    /\ gm_return' = ParseResponse(response_text)
    /\ gm_pc' = "returned"
    /\ UNCHANGED response_text

NextGemini == GmParse /\ UNCHANGED notGm

SpecGemini == InitGemini /\ [][NextGemini]_vars

After(text, i) == SubSeq(text, i + 1, Len(text))
Between(text, i, j) == SubSeq(text, i + 1, j - 1)

\* C9: (a) with both bracketed markers, corrected is the text between them
\* and summary the text after the summary marker; (b) with only the legacy
\* marker, corrected is the text before it and summary the text after it;
\* (c) with neither, summary is the sentinel and corrected the whole
\* response.  Surrounding whitespace is not counted in (a) and (b).
C9_ParserSplitsAtMarkers ==
    gm_pc = "returned" =>
       LET text == response_text
           hasC == Contains(text, CorrectedMarker)
           hasS == Contains(text, SummaryMarker)
           hasL == Contains(text, LegacyMarker)
       IN  /\ (hasC /\ hasS) =>
                 /\ ~gm_return.is_none
                 /\ gm_return.corrected =
                       Strip(Between(text, FirstIndex(text, CorrectedMarker),
                                     FirstIndex(text, SummaryMarker)))
                 /\ gm_return.summary =
                       Strip(After(text, FirstIndex(text, SummaryMarker)))
           /\ (hasL /\ ~hasC /\ ~hasS) =>
                 /\ ~gm_return.is_none
                 /\ gm_return.corrected =
                       Strip(SubSeq(text, 1, FirstIndex(text, LegacyMarker) - 1))
                 /\ gm_return.summary =
                       Strip(After(text, FirstIndex(text, LegacyMarker)))
           /\ (~(hasC /\ hasS) /\ ~hasL) =>
                 /\ ~gm_return.is_none
                 /\ gm_return.corrected = text
                 /\ gm_return.summary = SummaryUnavailable

\* C10: whatever markers the response contains, in whatever order and number,
\* parsing returns a (corrected, summary) result and never None.
C10_ParserNeverFails ==
    gm_pc = "returned" => ~gm_return.is_none

\* ======================================= merge_transcript_multi_slides.py
\* Image lookup of MultiSlidesProcessor.  Times are in tenths of a second
\* (file names carry one decimal: slide_009_t1m4.7s.jpg); for the times
\* below the binary64 differences compare exactly as the integers do.
MaxDecks == 2
MaxImages == 3
ImageTimes == {700, 999, 1000, 1001, 1300, 1301}
TargetTimes == {1000, 1001}
ToleranceTenths == 300

Abs(x) == IF x < 0 THEN 0 - x ELSE x

InitResolve ==
    /\ rs_pc = "loading" /\ all_slide_images = <<>> /\ rs_deck = 0
    /\ rs_loaded = 0 /\ rs_target = 0 /\ rs_return = RsNone
    /\ IdleExceptRs

KeyIndex(images, t) ==
    IF \E i \in 1..Len(images) : images[i].time = t
    THEN CHOOSE i \in 1..Len(images) : images[i].time = t
    ELSE 0

\* load_slide_images, one file of the glob: the key is created on first
\* use and (slide_index, img_path) is appended to its list
AddImage(images, t, slide_index, img) ==
    LET k == KeyIndex(images, t) IN
    IF k = 0
    THEN Append(images, [time |-> t, imgs |-> <<<<slide_index, img>>>>])
    ELSE [images EXCEPT ![k].imgs = Append(@, <<slide_index, img>>)]

LoadImage(t) ==
    /\ rs_pc = "loading"
    /\ rs_loaded < MaxImages
    /\ all_slide_images' = AddImage(all_slide_images, t, rs_deck,
                                    rs_loaded + 1)
    /\ rs_loaded' = rs_loaded + 1
    /\ UNCHANGED <<rs_pc, rs_deck, rs_target, rs_return>>

\* merge_with_gemini: the next (filename, content, images_folder)
NextDeck ==
    /\ rs_pc = "loading"
    /\ rs_deck < MaxDecks - 1
    /\ rs_deck' = rs_deck + 1
    /\ UNCHANGED <<rs_pc, all_slide_images, rs_loaded, rs_target, rs_return>>

\* min(d.keys(), key=lambda x: abs(x - target_time)): the first key, in
\* insertion order, whose distance is minimal
ClosestKey(images, target_time) ==
    CHOOSE i \in 1..Len(images) :
        /\ \A j \in 1..Len(images) :
               Abs(images[i].time - target_time)
                   <= Abs(images[j].time - target_time)
        /\ \A j \in 1..(i - 1) :
               Abs(images[j].time - target_time)
                   > Abs(images[i].time - target_time)

\* sorted(slide_images, key=lambda x: x[0])[0]: stable sort, first element
FirstBySlideIndex(imgs) ==
    LET i == CHOOSE i \in 1..Len(imgs) :
                 /\ \A j \in 1..Len(imgs) : imgs[i][1] <= imgs[j][1]
                 /\ \A j \in 1..(i - 1) : imgs[j][1] > imgs[i][1]
    IN  imgs[i]

Accepts(tolerance, diff) == diff < tolerance

insert_image(images, target_time, tolerance) ==
    IF images = <<>> THEN RsNone
    ELSE LET k == ClosestKey(images, target_time)
             closest_time == images[k].time
         IN  IF Accepts(tolerance, Abs(closest_time - target_time))
             THEN LET first == FirstBySlideIndex(images[k].imgs)
                  IN  [found |-> TRUE, time |-> closest_time,
                       slide_index |-> first[1], img |-> first[2]]
             ELSE RsNone

Resolve(target_time) ==
    /\ rs_pc = "loading"
    /\ rs_pc' = "resolved"
    /\ rs_target' = target_time
    /\ rs_return' = insert_image(all_slide_images, target_time,
                                 ToleranceTenths)
    /\ UNCHANGED <<all_slide_images, rs_deck, rs_loaded>>

NextResolve ==
    \/ (\E t \in ImageTimes : LoadImage(t)) /\ UNCHANGED notRs
    \/ NextDeck /\ UNCHANGED notRs
    \/ (\E t \in TargetTimes : Resolve(t)) /\ UNCHANGED notRs

SpecResolve == InitResolve /\ [][NextResolve]_vars

StoredTimes == {all_slide_images[i].time : i \in 1..Len(all_slide_images)}
Dist(t) == Abs(t - rs_target)
MinDist == CHOOSE d \in {Dist(t) : t \in StoredTimes} :
               \A t \in StoredTimes : d <= Dist(t)

\* C11: after a lookup, an image is returned if and only if the nearest
\* stored timestamp is at most 30 seconds (300 tenths) from the target,
\* and the image returned is at a nearest stored timestamp; with no image
\* stored nothing is returned.
C11_ClosestWithinTolerance ==
    rs_pc = "resolved" =>
        IF StoredTimes = {} THEN ~rs_return.found
        ELSE /\ rs_return.found <=> MinDist <= 300
             /\ rs_return.found => Dist(rs_return.time) = MinDist

\* the images stored at a nearest timestamp (the same timestamp, or two
\* timestamps equidistant from the target) or within a tenth of a second
\* of a nearest timestamp (nearly the same timestamp)
Candidates ==
    {im \in UNION {{<<all_slide_images[i].time, all_slide_images[i].imgs[j][1]>> :
                        j \in 1..Len(all_slide_images[i].imgs)} :
                   i \in 1..Len(all_slide_images)} :
        \E t \in StoredTimes : Dist(t) = MinDist /\ Abs(im[1] - t) <= 1}

\* C12: when a lookup returns an image, its deck index is the lowest deck
\* index among the candidate images at the same, nearly the same or
\* equidistant nearest timestamps.
C12_LowestDeckWins ==
    rs_pc = "resolved" /\ rs_return.found =>
        \A im \in Candidates : rs_return.slide_index <= im[2]

\* ============================================ batch_processor_cli.py, main
EnvValues == {NoneVal, "", "key"}

InitCliMain ==
    /\ cm_pc = "main"
    /\ env_openai_api_key \in EnvValues
    /\ env_google_api_key \in EnvValues
    /\ exit_code = -1
    /\ cli_pc = "start"
    /\ \E n \in 0..MaxFiles :
          /\ audio_files = [i \in 1..n |-> i]
          /\ file_info \in [1..n -> [size : FileSizes, provider : ProviderOutcomes]]
          /\ future = [i \in 1..n |-> "none"]
          /\ worker_result = [i \in 1..n |-> NoResult]
    /\ save_raises = {}
    /\ max_workers \in 1..MaxWorkers
    /\ results = <<>>
    /\ report = NoneVal
    /\ IdleExceptCliCm

\* BatchProcessor.__init__: "if not os.getenv(..): raise ValueError" for
\* both keys
KeysPresent_Mutant(openai_key, google_key) == Truthy(openai_key)
KeysPresent(openai_key, google_key) ==
    Truthy(openai_key) /\ Truthy(google_key)

\* main, up to the call of process_batch
CliMain ==
    /\ cm_pc = "main"
    /\ IF ~KeysPresent(env_openai_api_key, env_google_api_key)
       THEN cm_pc' = "exited" /\ exit_code' = 1
       ELSE IF audio_files = <<>>
       THEN cm_pc' = "exited" /\ exit_code' = 1
       ELSE cm_pc' = "batch" /\ exit_code' = exit_code
    /\ UNCHANGED <<env_openai_api_key, env_google_api_key>>

\* main returns after process_batch
CliMainReturn ==
    /\ cm_pc = "batch"
    /\ cli_pc = "done"
    /\ cm_pc' = "exited"
    /\ exit_code' = 0
    /\ UNCHANGED <<env_openai_api_key, env_google_api_key>>

NextCliMain ==
    \/ CliMain /\ UNCHANGED notCm
    \/ CliMainReturn /\ UNCHANGED notCm
    \/ cm_pc = "batch" /\ NextCli

SpecCliMain == InitCliMain /\ [][NextCliMain]_vars

NothingProcessed ==
    /\ cli_pc = "start"
    /\ \A f \in Files : future[f] = "none" /\ worker_result[f] = NoResult
    /\ results = <<>>
    /\ report = NoneVal

\* C14: once main has run, if OPENAI_API_KEY or GOOGLE_API_KEY is missing
\* from the environment, or no audio file was found, the process has
\* exited with status 1 and no file was submitted, processed or reported;
\* and status 1 is given in these cases only.
C14_ExitOneBeforeProcessing ==
    LET bad == \/ ~Truthy(env_openai_api_key)
               \/ ~Truthy(env_google_api_key)
               \/ audio_files = <<>>
    IN  /\ cm_pc # "main" /\ bad =>
            cm_pc = "exited" /\ exit_code = 1 /\ NothingProcessed
        /\ exit_code = 1 => bad

\* a key is missing although audio files were found
C14_Witness ==
    /\ cm_pc = "exited" /\ exit_code = 1
    /\ Truthy(env_openai_api_key) /\ ~Truthy(env_google_api_key)
    /\ Len(audio_files) > 0

\* ================== merge_transcript_multi_slides.py, parse_time_format
\* Strings are sequences of one-character strings.  A float is kept as an
\* integer number of 1/10000 s, exact for up to four fraction digits.
MaxTimeLen == 4
TimeAlphabet == {"t", "1", "3", ":", ".", "m", "s", "a"}
DigitChars == <<"0", "1", "2", "3", "4", "5", "6", "7", "8", "9">>
Digits == {DigitChars[i] : i \in 1..10}
DigitVal(c) == (CHOOSE i \in 1..10 : DigitChars[i] = c) - 1
FloatScale == 10000

NamedTimes ==
    {<<"t", "3", "m", "3", "4", ".", "7", "s">>,
     <<"2", "1", "4", ".", "7">>,
     <<"2", "1", "4", ".", "7", "s">>,
     <<"0", ":", "3", "8">>,
     <<"1", ":", "1", "4">>,
     <<"0", "0", ":", "0", "4", ":", "2", "8">>}

RECURSIVE TimeStrs(_)
TimeStrs(n) ==
    IF n = 0 THEN {<<>>}
    ELSE LET shorter == TimeStrs(n - 1)
         IN  shorter \cup {Append(q, c) : q \in {r \in shorter : Len(r) = n - 1},
                                          c \in TimeAlphabet}

\* length of the longest prefix of str made of characters of chars
RECURSIVE RunLen(_, _)
RunLen(str, chars) ==
    IF str = <<>> \/ Head(str) \notin chars THEN 0
    ELSE 1 + RunLen(Tail(str), chars)

Front(str) == SubSeq(str, 1, Len(str) - 1)
From(str, i) == SubSeq(str, i, Len(str))

\* int() of a run of digits
RECURSIVE DigitsVal(_)
DigitsVal(str) ==
    IF str = <<>> THEN 0
    ELSE DigitsVal(Front(str)) * 10 + DigitVal(str[Len(str)])

RECURSIVE Pow10(_)
Pow10(k) == IF k <= 0 THEN 1 ELSE 10 * Pow10(k - 1)

\* float(str) succeeds: over the characters used here the accepted
\* literals are digits, digits "." digits* and "." digits
IsFloat(str) ==
    LET n == RunLen(str, Digits)
        rest == From(str, n + 1)
    IN  \/ n > 0 /\ rest = <<>>
        \/ /\ rest # <<>> /\ Head(rest) = "."
           /\ RunLen(Tail(rest), Digits) = Len(Tail(rest))
           /\ n > 0 \/ Len(Tail(rest)) > 0

FloatVal(str) ==
    LET n == RunLen(str, Digits)
        frac == IF n < Len(str) THEN From(str, n + 2) ELSE <<>>
    IN  DigitsVal(SubSeq(str, 1, n)) * FloatScale
            + DigitsVal(frac) * Pow10(4 - Len(frac))

IsDigitAt(str, i) == i <= Len(str) /\ str[i] \in Digits
IsCharAt(str, i, c) == i <= Len(str) /\ str[i] = c

TpNone == [kind |-> "none", v |-> 0]
TpRaise == [kind |-> "raise", v |-> 0]
TpValue(v) == [kind |-> "value", v |-> v]

\* re.match(r'(\d{1,2}):(\d{2}):(\d{2})', s): a prefix match
MatchHMS(str) ==
    LET n == RunLen(str, Digits) IN
    /\ n \in {1, 2}
    /\ IsCharAt(str, n + 1, ":")
    /\ IsDigitAt(str, n + 2) /\ IsDigitAt(str, n + 3)
    /\ IsCharAt(str, n + 4, ":")
    /\ IsDigitAt(str, n + 5) /\ IsDigitAt(str, n + 6)

\* re.match(r'(\d+):(\d+\.?\d*)', s): a prefix match
MatchMS(str) ==
    LET n == RunLen(str, Digits) IN
    n > 0 /\ IsCharAt(str, n + 1, ":") /\ IsDigitAt(str, n + 2)

\* group(2) of the M:SS match: digits, an optional ".", digits
GroupMS(str) ==
    LET n == RunLen(str, Digits)
        rest == From(str, n + 2)
        k == RunLen(rest, Digits)
    IN  IF IsCharAt(rest, k + 1, ".")
        THEN SubSeq(rest, 1, k + 1 + RunLen(From(rest, k + 2), Digits))
        ELSE SubSeq(rest, 1, k)

\* re.match(r'(\d+)m([\d.]+)s', s): a prefix match
MatchMinSec(str) ==
    LET n == RunLen(str, Digits)
        rest == From(str, n + 2)
        r == RunLen(rest, Digits \cup {"."})
    IN  n > 0 /\ IsCharAt(str, n + 1, "m") /\ r > 0
        /\ IsCharAt(rest, r + 1, "s")

GroupMinSec(str) ==
    LET n == RunLen(str, Digits)
        rest == From(str, n + 2)
    IN  SubSeq(rest, 1, RunLen(rest, Digits \cup {"."}))

StripT(str) == IF str # <<>> /\ Head(str) = "t" THEN Tail(str) ELSE str

parse_time_format(arg) ==
    LET str == StripT(arg)
        n == RunLen(str, Digits)
    IN  IF IsFloat(str) THEN TpValue(FloatVal(str))
        ELSE IF str # <<>> /\ str[Len(str)] = "s" /\ IsFloat(Front(str))
        THEN TpValue(FloatVal(Front(str)))
        ELSE IF MatchHMS(str)
        THEN TpValue((DigitsVal(SubSeq(str, 1, n)) * 3600
                      + DigitsVal(SubSeq(str, n + 2, n + 3)) * 60
                      + DigitsVal(SubSeq(str, n + 5, n + 6))) * FloatScale)
        ELSE IF MatchMS(str)
        THEN TpValue(DigitsVal(SubSeq(str, 1, n)) * 60 * FloatScale
                     + FloatVal(GroupMS(str)))
        ELSE IF MatchMinSec(str)
        THEN IF IsFloat(GroupMinSec(str))
             THEN TpValue(DigitsVal(SubSeq(str, 1, n)) * 60 * FloatScale
                          + FloatVal(GroupMinSec(str)))
             ELSE TpRaise   \* float(match.group(2)) raises ValueError
        ELSE TpNone

InitTime ==
    /\ tp_pc = "start"
    /\ time_str \in NamedTimes \cup TimeStrs(MaxTimeLen)
    /\ tp_return = "unset"
    /\ IdleExceptTp

TpParse ==
    /\ tp_pc = "start"
    /\ tp_pc' = "done"
    /\ tp_return' = parse_time_format(time_str)
    /\ UNCHANGED time_str

NextTime == TpParse /\ UNCHANGED notTp

SpecTime == InitTime /\ [][NextTime]_vars

\* the accepted forms, the whole string being in the form
IsPlainSeconds(str) == IsFloat(str)
IsTrailingS(str) == str # <<>> /\ str[Len(str)] = "s" /\ IsFloat(Front(str))
IsHMS(str) == MatchHMS(str) /\ Len(str) = RunLen(str, Digits) + 6
IsMS(str) ==
    MatchMS(str) /\ Len(str) = RunLen(str, Digits) + 1 + Len(GroupMS(str))
IsMinSec(str) ==
    /\ MatchMinSec(str) /\ IsFloat(GroupMinSec(str))
    /\ Len(str) = RunLen(str, Digits) + 2 + Len(GroupMinSec(str))
InAcceptedForm(arg) ==
    LET str == StripT(arg)
    IN  \/ IsPlainSeconds(str) \/ IsTrailingS(str) \/ IsHMS(str)
        \/ IsMS(str) \/ IsMinSec(str)

ExpectedTenths(arg) ==
    CASE arg = <<"t", "3", "m", "3", "4", ".", "7", "s">> -> 2147
      [] arg = <<"2", "1", "4", ".", "7">> -> 2147
      [] arg = <<"2", "1", "4", ".", "7", "s">> -> 2147
      [] arg = <<"0", ":", "3", "8">> -> 380
      [] arg = <<"1", ":", "1", "4">> -> 740
      [] OTHER -> 2680

\* C13: the parser returns the listed seconds for the six listed
\* encodings, and for every string in none of the accepted forms it
\* returns None: it neither raises nor returns a number.
C13_TimeParser ==
    tp_pc = "done" =>
        /\ time_str \in NamedTimes =>
               tp_return = TpValue(ExpectedTenths(time_str) * 1000)
        /\ ~InAcceptedForm(time_str) => tp_return = TpNone

\* ================= main_app.py, the session: Step 1 hand-off, Steps 2 and 3
OptimizationServices == {"Gemini", "OpenAI"}
RefineOutcomes == {"ok", "fail1", "fail2"}
SessionDurations == {300000, 900003}
MarkdownText == "md text"

\* main: the session defaults, then the values earlier runs may have left
InitSession ==
    /\ s2_pc = "done"
    /\ transcription_service \in Services
    /\ openai_api_key \in {"", "sk-key"}
    /\ elevenlabs_api_key \in {"", "xi-key"}
    /\ audio_ok = TRUE
    /\ duration_ms \in SessionDurations
    /\ transcribed_text \in {NoneVal, "old text"}
    /\ InitStep2Locals
    /\ last_action = "none"
    /\ optimization_service \in OptimizationServices
    /\ gemini_api_key \in {"", "g-key"}
    /\ markdown_text \in {NoneVal, MarkdownText}
    /\ optimized_text = NoneVal /\ summary_text = NoneVal
    /\ full_result = NoneVal
    /\ input_tokens = 0 /\ output_tokens = 0 /\ total_tokens = 0
    /\ s3_provider = "ok" /\ s3_errors = <<>> /\ s3_calls = <<>>
    /\ IdleExceptStep2S3

\* the transcribe button with an uploaded file: a new run of the script;
\* the sidebar may have been edited before
Step2Press ==
    /\ s2_pc = "done"
    /\ s2_pc' = "start"
    /\ transcription_service' \in Services
    /\ openai_api_key' \in {"", "sk-key"}
    /\ elevenlabs_api_key' \in {"", "xi-key"}
    /\ start_time' = 0 /\ segments' = <<>> /\ audio_segments' = <<>>
    /\ seg_i' = 0 /\ retry_count' = 0 /\ failed' = FALSE
    /\ segment_results' = <<>> /\ attempt_log' = <<>>
    /\ full_transcript' = "" /\ st_errors' = <<>>
    /\ last_action' = "transcribe"
    /\ s3_errors' = <<>> /\ s3_calls' = <<>>
    /\ UNCHANGED <<audio_ok, duration_ms, transcribed_text,
                   optimization_service, gemini_api_key, markdown_text,
                   optimized_text, summary_text, full_result, input_tokens,
                   output_tokens, total_tokens, s3_provider>>

\* render_markitdown_tab: the button that sends the Markdown to Step 3;
\* the tab returns before the button when markdown_text is empty
HandOff ==
    /\ s2_pc = "done"
    /\ Truthy(markdown_text)
    /\ transcribed_text' = markdown_text
    /\ last_action' = "handoff"
    /\ s3_errors' = <<>> /\ s3_calls' = <<>>
    /\ UNCHANGED <<s2_pc, transcription_service, openai_api_key,
                   elevenlabs_api_key, audio_ok, duration_ms, start_time,
                   segments, audio_segments, seg_i, retry_count, failed,
                   segment_results, attempt_log, full_transcript, st_errors>>
    /\ UNCHANGED <<optimization_service, gemini_api_key, markdown_text,
                   optimized_text, summary_text, full_result, input_tokens,
                   output_tokens, total_tokens, s3_provider>>

\* what the Step 3 tab renders
Step3View ==
    IF ~Truthy(transcribed_text)
    THEN [kind |-> "info", text |-> NoneVal, optimize_button |-> FALSE]
    ELSE IF Truthy(optimized_text)
    THEN [kind |-> "result", text |-> full_result, optimize_button |-> FALSE]
    ELSE [kind |-> "to refine", text |-> transcribed_text,
          optimize_button |-> TRUE]

KeyMissing_Mutant(key) == FALSE
KeyMissing(key) == key = ""

\* keyword arguments of the call in main_app.py and the parameters of
\* transcript_refiner.refine_transcript, the function main_app imports
refine_call_kwargs ==
    {"raw_text", "api_key", "model", "temperature", "context"}
refine_transcript_params == {"raw_text", "api_key", "model", "temperature"}

NoRefined == [is_none |-> TRUE, corrected |-> "", summary |-> "",
              has_usage |-> FALSE, total_input_tokens |-> 0,
              total_output_tokens |-> 0]

\* usage of the two chat completions
Usage == <<[prompt_tokens |-> 100, completion_tokens |-> 20],
           [prompt_tokens |-> 50, completion_tokens |-> 30]>>

\* transcript_refiner.refine_transcript: two chat completions; any
\* exception gives None; the dict returned has no "usage" key
refine_transcript(outcome) ==
    CASE outcome = "ok" ->
           [calls |-> <<"openai correction", "openai summary">>,
            refined |-> [is_none |-> FALSE, corrected |-> "# corrected",
                         summary |-> "**summary**", has_usage |-> FALSE,
                         total_input_tokens |-> 0,
                         total_output_tokens |-> 0]]
      [] outcome = "fail1" ->
           [calls |-> <<"openai correction">>, refined |-> NoRefined]
      [] OTHER ->
           [calls |-> <<"openai correction", "openai summary">>,
            refined |-> NoRefined]

\* main_app.refine_transcript_gemini: one generate_content call; the dict
\* parsed from the response, or None
refine_transcript_gemini(outcome) ==
    IF outcome = "ok"
    THEN [calls |-> <<"gemini generate_content">>,
          refined |-> [is_none |-> FALSE, corrected |-> "# corrected",
                       summary |-> "**summary**", has_usage |-> TRUE,
                       total_input_tokens |-> 0, total_output_tokens |-> 0]]
    ELSE [calls |-> <<"gemini generate_content">>, refined |-> NoRefined]

\* "if refined:" on an Optional[dict]
refined_truthy_Mutant(refined) == TRUE
refined_truthy(refined) == ~refined.is_none

\* remove_markdown on the texts of this model
remove_markdown(text) ==
    CASE text = "# corrected" -> "corrected"
      [] text = "**summary**" -> "summary"
      [] OTHER -> text

\* the "optimize" button of Step 3, shown when there is a text and no
\* optimized result yet
Refine ==
    /\ s2_pc = "done"
    /\ Step3View.optimize_button
    /\ last_action' = "refine"
    /\ \E outcome \in RefineOutcomes :
        /\ s3_provider' = outcome
        /\ LET run ==
                 IF optimization_service = "OpenAI"
                 THEN IF KeyMissing(openai_api_key)
                      THEN [error |-> "please provide the OpenAI API key",
                            calls |-> <<>>, refined |-> NoRefined]
                      ELSE IF ~(refine_call_kwargs \subseteq refine_transcript_params)
                      THEN [error |-> "refinement failed: refine_transcript() got an unexpected keyword argument 'context'",
                            calls |-> <<>>, refined |-> NoRefined]
                      ELSE [error |-> "text refinement failed",
                            calls |-> refine_transcript(outcome).calls,
                            refined |-> refine_transcript(outcome).refined]
                 ELSE IF KeyMissing(gemini_api_key)
                      THEN [error |-> "please provide the Google API key",
                            calls |-> <<>>, refined |-> NoRefined]
                      ELSE [error |-> "text refinement failed",
                            calls |-> refine_transcript_gemini(outcome).calls,
                            refined |-> refine_transcript_gemini(outcome).refined]
           IN  /\ s3_calls' = run.calls
               /\ IF refined_truthy(run.refined)
                  THEN /\ s3_errors' = <<>>
                       /\ optimized_text' = run.refined.corrected
                       /\ summary_text' = run.refined.summary
                       /\ full_result' =
                              remove_markdown(run.refined.corrected)
                                  \o " / " \o remove_markdown(run.refined.summary)
                       /\ input_tokens' =
                              IF run.refined.has_usage
                              THEN run.refined.total_input_tokens ELSE 0
                       /\ output_tokens' =
                              IF run.refined.has_usage
                              THEN run.refined.total_output_tokens ELSE 0
                       /\ total_tokens' = input_tokens' + output_tokens'
                  ELSE /\ s3_errors' = <<run.error>>
                       /\ UNCHANGED <<optimized_text, summary_text,
                                      full_result, input_tokens,
                                      output_tokens, total_tokens>>
    /\ UNCHANGED <<optimization_service, gemini_api_key, markdown_text>>

NextSession ==
    \/ Step2Press /\ UNCHANGED notStep2S3
    \/ HandOff /\ UNCHANGED notStep2S3
    \/ Refine /\ UNCHANGED notS3
    \/ NextStep2

SpecSession == InitSession /\ [][NextSession]_vars

RequiredKeyEmpty2 ==
    \/ transcription_service = "OpenAI 2025 New" /\ openai_api_key = ""
    \/ transcription_service = "ElevenLabs" /\ elevenlabs_api_key = ""
RequiredKeyEmpty3 ==
    \/ optimization_service = "OpenAI" /\ openai_api_key = ""
    \/ optimization_service = "Gemini" /\ gemini_api_key = ""

\* C15: when the key of the selected provider is empty, a Step 2 run and a
\* Step 3 run each end with exactly one error message shown and with no
\* call issued to a provider.
C15_EmptyKeyNoProviderCall ==
    /\ last_action = "transcribe" /\ s2_pc # "start" /\ RequiredKeyEmpty2 =>
           s2_pc = "done" /\ Len(st_errors) = 1 /\ attempt_log = <<>>
    /\ last_action = "refine" /\ RequiredKeyEmpty3 =>
           Len(s3_errors) = 1 /\ s3_calls = <<>>

\* a Step 2 run ended on the empty OpenAI key, then a Step 3 run ended on
\* the empty Google key
C15_Witness ==
    /\ transcription_service = "OpenAI 2025 New" /\ openai_api_key = ""
    /\ s2_pc = "done" /\ Len(st_errors) = 1
    /\ last_action = "refine" /\ optimization_service = "Gemini"
    /\ gemini_api_key = "" /\ Len(s3_errors) = 1

SessionValues == <<transcribed_text, optimized_text, summary_text>>

\* the refiner of the selected provider cannot deliver
RefineFails ==
    \/ RequiredKeyEmpty3
    \/ optimization_service = "OpenAI"
           /\ ~(refine_call_kwargs \subseteq refine_transcript_params)
    \/ s3_provider # "ok"

C17_HandOffShownInStep3 ==
    last_action = "handoff" =>
        Step3View = [kind |-> "to refine", text |-> markdown_text,
                     optimize_button |-> TRUE]

\* C18: after a Step 3 run with OpenAI selected, a non-empty key and a
\* provider that answers both calls, optimized_text and summary_text are
\* the refiner's texts and the token totals are the usage summed over the
\* two calls.
C18_OpenAIRefinerStores ==
    /\ last_action = "refine" /\ optimization_service = "OpenAI"
    /\ openai_api_key # "" /\ s3_provider = "ok"
    => /\ optimized_text = "# corrected"
       /\ summary_text = "**summary**"
       /\ input_tokens = Usage[1].prompt_tokens + Usage[2].prompt_tokens
       /\ output_tokens = Usage[1].completion_tokens + Usage[2].completion_tokens
       /\ total_tokens = input_tokens + output_tokens

\* ============ markitdown_utils.py, convert_file_to_markdown on a PPTX file
MaxSlides == 3

\* kinds of shape: a text box with text, a text box with blanks only, a
\* picture, a table with text in its cells, a table whose cells are empty
SlideKinds ==
    {<<>>, <<"text">>, <<"blank">>, <<"picture">>, <<"picture", "blank">>,
     <<"picture", "text">>, <<"table">>, <<"empty_table">>}

RECURSIVE Decks(_)
Decks(n) ==
    IF n = 0 THEN {<<>>}
    ELSE LET shorter == Decks(n - 1)
         IN  shorter \cup {Append(d, k) : d \in {e \in shorter : Len(e) = n - 1},
                                          k \in SlideKinds}

Line(kind, n) == [kind |-> kind, n |-> n]
ImageSlideTag == Line("no text content or image slide", 0)

InitPptx ==
    /\ px_pc = "start"
    /\ px_use_llm \in BOOLEAN
    /\ px_api_key \in {"", "sk-key"}
    /\ px_vision_ok \in BOOLEAN
    /\ px_parse_ok \in BOOLEAN
    /\ prs_slides \in Decks(MaxSlides)
    /\ slide_idx = 0 /\ slide_count = 0 /\ text_content = <<>>
    /\ px_return = PxUnset
    /\ IdleExceptPx

\* the PPTX branch up to the loop: the Vision API route when use_llm and
\* api_key are set, then Presentation(path)
PxStart ==
    /\ px_pc = "start"
    /\ IF px_use_llm /\ px_api_key # "" /\ px_vision_ok
       THEN /\ px_pc' = "done"
            /\ px_return' = [success |-> TRUE, method |-> "vision_api",
                             lines |-> <<Line("vision", 0)>>,
                             slide_count |-> Len(prs_slides)]
       ELSE IF ~px_parse_ok
       THEN \* python-pptx failed: the MarkItDown engine takes over
            /\ px_pc' = "done"
            /\ px_return' = [success |-> FALSE, method |-> "markitdown",
                             lines |-> <<>>, slide_count |-> 0]
       ELSE /\ px_pc' = "slides"
            /\ px_return' = px_return
    /\ UNCHANGED <<px_use_llm, px_api_key, px_vision_ok, px_parse_ok,
                   prs_slides, slide_idx, slide_count, text_content>>

\* the lines one shape adds
ShapeLines(shape) ==
    CASE shape = "text" ->
           \* shape.text, then the same paragraph from shape.text_frame
           <<Line("text", 0), Line("", 0), Line("text", 0), Line("", 0)>>
      [] shape = "table" ->
           <<Line("table heading", 0), Line("row with text", 0), Line("", 0)>>
      [] shape = "empty_table" ->
           <<Line("table heading", 0), Line("row of empty cells", 0), Line("", 0)>>
      [] OTHER -> <<>>

\* slide_has_content after the shapes of the slide
ShapeHasContent(shape) == shape \in {"text", "table", "empty_table"}

RECURSIVE SlideLines(_)
SlideLines(shapes) ==
    IF shapes = <<>> THEN <<>>
    ELSE ShapeLines(Head(shapes)) \o SlideLines(Tail(shapes))

slide_has_content(shapes) ==
    \E i \in 1..Len(shapes) : ShapeHasContent(shapes[i])

\* extract_slide_as_image: always None
extract_slide_as_image == NoneVal

\* one iteration of "for slide_idx, slide in enumerate(prs.slides, 1)"
PxSlide ==
    /\ px_pc = "slides"
    /\ slide_idx < Len(prs_slides)
    /\ LET shapes == prs_slides[slide_idx + 1]
           image_analyzed == /\ px_use_llm /\ px_api_key # ""
                             /\ extract_slide_as_image # NoneVal
       IN  text_content' =
               text_content \o <<Line("slide heading", slide_idx + 1)>>
                   \o SlideLines(shapes)
                   \o (IF slide_has_content(shapes) THEN <<>>
                       ELSE IF image_analyzed
                       THEN <<Line("image analysis", 0), Line("", 0)>>
                       ELSE <<ImageSlideTag, Line("", 0)>>)
    /\ slide_idx' = slide_idx + 1
    /\ slide_count' = slide_count + 1
    /\ UNCHANGED <<px_pc, px_use_llm, px_api_key, px_vision_ok, px_parse_ok,
                   prs_slides, px_return>>

\* after the loop: the text and conversion_info
PxFinish ==
    /\ px_pc = "slides"
    /\ slide_idx = Len(prs_slides)
    /\ px_pc' = "done"
    /\ px_return' = [success |-> TRUE, method |-> "python-pptx",
                     lines |-> text_content, slide_count |-> slide_count]
    /\ UNCHANGED <<px_use_llm, px_api_key, px_vision_ok, px_parse_ok,
                   prs_slides, slide_idx, slide_count, text_content>>

NextPptx ==
    \/ PxStart /\ UNCHANGED notPx
    \/ PxSlide /\ UNCHANGED notPx
    \/ PxFinish /\ UNCHANGED notPx

SpecPptx == InitPptx /\ [][NextPptx]_vars

\* the positions of the slide headings in the output, in output order
HeadingPositions ==
    {i \in 1..Len(px_return.lines) : px_return.lines[i].kind = "slide heading"}
HeadingOf(k) ==
    CHOOSE i \in HeadingPositions : px_return.lines[i].n = k
\* the output lines of section k
SectionEnd(k) ==
    IF \E i \in HeadingPositions : i > HeadingOf(k)
    THEN (CHOOSE i \in HeadingPositions :
              i > HeadingOf(k)
                  /\ \A j \in HeadingPositions : j > HeadingOf(k) => i <= j) - 1
    ELSE Len(px_return.lines)
\* no shape of the slide carries any text
ZeroText(shapes) ==
    \A i \in 1..Len(shapes) : shapes[i] \notin {"text", "table"}

\* C20: without an API key, the native parse of a deck of N slides returns
\* exactly N slide sections, numbered 1..N in deck order, and slide_count
\* = N; the section of every slide without any text carries the image
\* slide tag.
C20_NativePptxKeepsEverySlide ==
    px_pc = "done" /\ px_api_key = "" /\ px_parse_ok =>
        LET N == Len(prs_slides) IN
        /\ px_return.success /\ px_return.method = "python-pptx"
        /\ px_return.slide_count = N
        /\ Cardinality(HeadingPositions) = N
        /\ \A k \in 1..N :
              /\ \E i \in HeadingPositions : px_return.lines[i].n = k
              /\ k > 1 => HeadingOf(k - 1) < HeadingOf(k)
              /\ ZeroText(prs_slides[k]) =>
                     \E i \in HeadingOf(k)..SectionEnd(k) :
                         px_return.lines[i] = ImageSlideTag

\* ============ image_analyzer.py, enhance_slides
MaxDocLen == 4

\* a document is a sequence of tokens: a slide-boundary comment
\* "<!-- Slide number: N -->", a run of whitespace, a run of other text, an
\* image markup whose file exists and whose alt text is short
Tok(kind, n) == [kind |-> kind, n |-> n]
TokenKinds == {"marker", "ws", "text", "img"}

RECURSIVE KindSeqs(_)
KindSeqs(n) ==
    IF n = 0 THEN {<<>>}
    ELSE LET shorter == KindSeqs(n - 1)
         IN  shorter \cup {Append(d, k) : d \in {e \in shorter : Len(e) = n - 1},
                                          k \in TokenKinds}

MarkersUpTo(kinds, i) ==
    Cardinality({j \in 1..i : kinds[j] = "marker"})
\* the markers of a document are numbered 1, 2, .. in document order
Numbered(kinds) ==
    [i \in 1..Len(kinds) |->
        Tok(kinds[i], IF kinds[i] = "marker" THEN MarkersUpTo(kinds, i) ELSE 0)]
Documents == {Numbered(kinds) : kinds \in KindSeqs(MaxDocLen)}

\* re.split(r"<!-- Slide number: \d+ -->", markdown_text)
RECURSIVE re_split(_)
re_split(text) ==
    IF \A i \in 1..Len(text) : text[i].kind # "marker" THEN <<text>>
    ELSE LET m == CHOOSE i \in 1..Len(text) :
                      /\ text[i].kind = "marker"
                      /\ \A j \in 1..(i - 1) : text[j].kind # "marker"
         IN  <<SubSeq(text, 1, m - 1)>> \o re_split(SubSeq(text, m + 1, Len(text)))

\* not slide.strip()
IsBlankSlide(slide) == \A i \in 1..Len(slide) : slide[i].kind = "ws"

\* enhance_markdown_with_image_analysis: every image markup is replaced by
\* the markup with the description when analyze_image succeeds
enhance_markdown_with_image_analysis(slide, analysis_ok) ==
    [i \in 1..Len(slide) |->
        IF slide[i].kind = "img" /\ analysis_ok
        THEN Tok("img with details", 0) ELSE slide[i]]

RECURSIVE JoinSlides(_)
JoinSlides(chunks) ==
    IF chunks = <<>> THEN <<>> ELSE Head(chunks) \o JoinSlides(Tail(chunks))

InitEnhance ==
    /\ es_pc = "start"
    /\ es_text \in Documents
    /\ es_slides = <<>> /\ es_i = 0 /\ enhanced_slides = <<>>
    /\ es_return = <<>>
    /\ IdleExceptEs

EsSplit ==
    /\ es_pc = "start"
    /\ es_slides' = re_split(es_text)
    /\ es_pc' = "slides"
    /\ UNCHANGED <<es_text, es_i, enhanced_slides, es_return>>

\* one iteration of "for i, slide in enumerate(slides)"
EsSlide ==
    /\ es_pc = "slides"
    /\ es_i < Len(es_slides)
    /\ \E analysis_ok \in BOOLEAN :
         LET slide == es_slides[es_i + 1]
             enhanced_slide ==
                 enhance_markdown_with_image_analysis(slide, analysis_ok)
         IN  enhanced_slides' =
                 Append(enhanced_slides,
                        IF IsBlankSlide(slide) THEN slide
                        ELSE IF es_i > 0
                        THEN <<Tok("marker", es_i), Tok("newline", 0)>>
                                 \o enhanced_slide
                        ELSE enhanced_slide)
    /\ es_i' = es_i + 1
    /\ UNCHANGED <<es_pc, es_text, es_slides, es_return>>

EsJoin ==
    /\ es_pc = "slides"
    /\ es_i = Len(es_slides)
    /\ es_return' = JoinSlides(enhanced_slides)
    /\ es_pc' = "done"
    /\ UNCHANGED <<es_text, es_slides, es_i, enhanced_slides>>

NextEnhance ==
    \/ EsSplit /\ UNCHANGED notEs
    \/ EsSlide /\ UNCHANGED notEs
    \/ EsJoin /\ UNCHANGED notEs

SpecEnhance == InitEnhance /\ [][NextEnhance]_vars

MarkerCount(text) ==
    Cardinality({i \in 1..Len(text) : text[i].kind = "marker"})
\* a text with the descriptions and the marker numbers left out
PlainText(text) ==
    [i \in 1..Len(text) |->
        IF text[i].kind = "img with details" THEN Tok("img", 0)
        ELSE Tok(text[i].kind, 0)]
\* the chunks in order, a marker before every chunk except the first
RECURSIVE Rejoined(_)
Rejoined(chunks) ==
    IF Len(chunks) <= 1 THEN JoinSlides(chunks)
    ELSE Rejoined(SubSeq(chunks, 1, Len(chunks) - 1))
             \o <<Tok("marker", 0), Tok("newline", 0)>>
             \o chunks[Len(chunks)]

\* C21: enhance_slides returns the chunks of the document in their order
\* with a slide-boundary marker before every chunk except the first, so the
\* output has as many markers as the document; a document without a
\* marker gets none.
C21_MarkersReinserted ==
    es_pc = "done" =>
        /\ PlainText(es_return) = PlainText(Rejoined(re_split(es_text)))
        /\ MarkerCount(es_return) = MarkerCount(es_text)

\* ============ markitdown_utils.py, extract_keywords
MaxKeywordsLen == 5
MaxCount == 2

LF == "\n"
Whitespace == {Blank, LF}
KeywordChars == {"a", Blank, LF}

RECURSIVE KeywordTexts(_)
KeywordTexts(n) ==
    IF n = 0 THEN {<<>>}
    ELSE LET shorter == KeywordTexts(n - 1)
         IN  shorter \cup {Append(t, c) : t \in {u \in shorter : Len(u) = n - 1},
                                           c \in KeywordChars}

\* str.strip() without argument
RECURSIVE StripWhitespace(_)
StripWhitespace(text) ==
    IF text = <<>> THEN text
    ELSE IF text[1] \in Whitespace THEN StripWhitespace(Tail(text))
    ELSE IF text[Len(text)] \in Whitespace
    THEN StripWhitespace(SubSeq(text, 1, Len(text) - 1))
    ELSE text

\* [kw.strip() for kw in lines if kw.strip()]
RECURSIVE StrippedNonBlank(_)
StrippedNonBlank(lines) ==
    IF lines = <<>> THEN <<>>
    ELSE (IF StripWhitespace(Head(lines)) # <<>>
          THEN <<StripWhitespace(Head(lines))>> ELSE <<>>)
             \o StrippedNonBlank(Tail(lines))

\* the body of extract_keywords; an exception of the API call is caught and
\* gives the empty list.  count is used in the prompt only.
extract_keywords(text, api_ok, count) ==
    IF ~api_ok THEN <<>>
    ELSE StrippedNonBlank(Split(StripWhitespace(text), LF))

InitKeywords ==
    /\ kw_pc = "start"
    /\ kw_count \in 1..MaxCount
    /\ kw_api_ok \in BOOLEAN
    /\ keywords_text \in KeywordTexts(MaxKeywordsLen)
    /\ kw_return = <<>>
    /\ IdleExceptKw

KwExtract ==
    /\ kw_pc = "start"
    /\ kw_return' = extract_keywords(keywords_text, kw_api_ok, kw_count)
    /\ kw_pc' = "done"
    /\ UNCHANGED <<kw_count, kw_api_ok, keywords_text>>

NextKeywords == KwExtract /\ UNCHANGED notKw

SpecKeywords == InitKeywords /\ [][NextKeywords]_vars

\* C22: extract_keywords with count = n returns at most n keywords, none
\* of them empty and none with leading or trailing whitespace, whatever
\* text the model returns.
C22_KeywordCount ==
    kw_pc = "done" =>
        /\ Len(kw_return) <= kw_count
        /\ \A i \in 1..Len(kw_return) :
              /\ kw_return[i] # <<>>
              /\ kw_return[i][1] \notin Whitespace
              /\ kw_return[i][Len(kw_return[i])] \notin Whitespace

\* ============ utils.py and audio2text/utils.py, check_file_constraints
MAX_FILE_SIZE == 25 * 1024 * 1024
MAX_DURATION_DIARIZE == 8 * 60

\* os.path.getsize raises OSError (no such file)
GetsizeRaises == 0 - 1
FileSizesBytes == {0, MAX_FILE_SIZE - 1, MAX_FILE_SIZE, MAX_FILE_SIZE + 1}
AudioLengthsMs ==
    {1000, MAX_DURATION_DIARIZE * 1000 - 1, MAX_DURATION_DIARIZE * 1000,
     MAX_DURATION_DIARIZE * 1000 + 1, 600000}

Decoded(len) == [raised |-> "", len |-> len]
Raises(exception) == [raised |-> exception, len |-> 0]

\* AudioSegment.from_file(file_path).  pydub itself is imported at the top
\* of utils.py, so the function only exists when pydub is installed; pydub
\* decodes by running ffmpeg, and Popen raises FileNotFoundError when the
\* program is missing.  ImportError is kept as an outcome because the code
\* has a handler for it.
FromFileOutcomes(decoder) ==
    IF decoder = "missing"
    THEN {Raises("FileNotFoundError"), Raises("ImportError")}
    ELSE {Decoded(len) : len \in AudioLengthsMs}
             \cup {Raises("CouldntDecodeError")}

check_file_constraints_diarize(file_size, diarize, from_file) ==
    IF file_size = GetsizeRaises THEN <<FALSE, "file check failed: OSError">>
    ELSE IF file_size > MAX_FILE_SIZE
    THEN <<FALSE, "file size over limit (max 25MB)">>
    ELSE IF ~diarize THEN <<TRUE, "file check passed">>
    ELSE IF from_file.raised = "ImportError" THEN <<TRUE, "file check passed">>
    ELSE IF from_file.raised # ""
    THEN <<FALSE, "file check failed: " \o from_file.raised>>
    ELSE IF from_file.len > MAX_DURATION_DIARIZE * 1000
    THEN <<FALSE, "audio longer than 8 minutes with diarization">>
    ELSE <<TRUE, "file check passed">>

InitConstraints ==
    /\ cf_pc = "start"
    /\ cf_file_size \in FileSizesBytes \cup {GetsizeRaises}
    /\ cf_diarize \in BOOLEAN
    /\ cf_decoder \in {"available", "missing"}
    /\ cf_from_file \in FromFileOutcomes(cf_decoder)
    /\ cf_return = <<FALSE, "unset">>
    /\ IdleExceptCf

CfCheck ==
    /\ cf_pc = "start"
    /\ cf_return' = check_file_constraints_diarize(cf_file_size, cf_diarize,
                                                   cf_from_file)
    /\ cf_pc' = "done"
    /\ UNCHANGED <<cf_file_size, cf_diarize, cf_decoder, cf_from_file>>

NextConstraints == CfCheck /\ UNCHANGED notCf

SpecConstraints == InitConstraints /\ [][NextConstraints]_vars

\* C23: check_file_constraints with diarize=True on a file within the 25 MB
\* limit: when the audio cannot be decoded because the decoding dependency
\* is unavailable, the duration check is skipped and the result is ok.
C23_MissingDecoderSoftFails ==
    /\ cf_pc = "done" /\ cf_diarize /\ cf_file_size # GetsizeRaises
    /\ cf_decoder = "missing"
    => (cf_file_size <= MAX_FILE_SIZE => cf_return[1] = TRUE)

\* ============ main_app.py, Step 2: temporary files
\* temp_path, the NamedTemporaryFile(delete=False) copy of the upload
temp_path == [kind |-> "upload", n |-> 0]
\* f"{temp_path}_segment_{n}.mp3"
segment_file(n) == [kind |-> "segment", n |-> n]

\* the handler up to the splitting: the copy is written once the key checks
\* have passed
TfStart ==
    /\ Step2Start
    /\ temp_files' = IF s2_pc' = "done" THEN temp_files
                     ELSE temp_files \cup {temp_path}

\* segment.export(segment_path, format="mp3")
TfSplitIter ==
    /\ SplitIter
    /\ temp_files' = temp_files \cup {segment_file(Len(segments))}

\* "if segment_path != temp_path: os.remove(segment_path)" at the end of the
\* loop body
TfSegmentEnd ==
    /\ SegmentEnd
    /\ temp_files' = IF audio_segments[seg_i + 1] = WholeFile THEN temp_files
                     ELSE temp_files \ {segment_file(seg_i)}

NextTempFiles ==
    \/ TfStart /\ UNCHANGED notStep2Tf
    \/ TfSplitIter /\ UNCHANGED notStep2Tf
    \/ TfSegmentEnd /\ UNCHANGED notStep2Tf
    \/ SplitDone /\ UNCHANGED notStep2
    \/ SegmentBegin /\ UNCHANGED notStep2
    \/ Attempt /\ UNCHANGED notStep2
    \/ Merge /\ UNCHANGED notStep2
    \/ StoreResult /\ UNCHANGED notStep2

SpecTempFiles == InitStep2 /\ [][NextTempFiles]_vars

\* C24: when a transcription action finishes successfully, the saved copy
\* of the upload and every exported segment file have been deleted.
C24_TempFilesDeleted ==
    s2_pc = "done" /\ full_transcript # "" => temp_files = {}

\* ============ whisper_stt.py and audio2text/whisper_stt.py
MaxWhisperCalls == 3
ModelNames == {"tiny", "base"}
WhisperOutcomes == {"ok", "load raises", "transcribe raises"}

\* one call of transcribe_audio_whisper: what it does with the model and
\* what it returns
transcribe_audio_whisper(model_name, deps_ok, outcome) ==
    IF ~deps_ok
    THEN [model_name |-> model_name, load_model |-> FALSE, result |-> NoneVal]
    ELSE IF outcome = "load raises"
    THEN [model_name |-> model_name, load_model |-> FALSE, result |-> NoneVal]
    ELSE \* model = whisper.load_model(model_name, device=device), a local
         [model_name |-> model_name, load_model |-> TRUE,
          result |-> IF outcome = "ok" THEN "text" ELSE NoneVal]

InitWhisper ==
    /\ wh_deps_ok \in BOOLEAN
    /\ wh_log = <<>>
    /\ IdleExceptWh

WhCall ==
    /\ Len(wh_log) < MaxWhisperCalls
    /\ \E model_name \in ModelNames, outcome \in WhisperOutcomes :
          wh_log' = Append(wh_log,
              transcribe_audio_whisper(model_name, wh_deps_ok, outcome))
    /\ UNCHANGED wh_deps_ok

NextWhisper == WhCall /\ UNCHANGED notWh

SpecWhisper == InitWhisper /\ [][NextWhisper]_vars

\* C25: within one process the model of a size is loaded by the first
\* transcription that uses the size and is cached: a later transcription
\* with the same size does not load it again.
C25_ModelLoadedOncePerSize ==
    \A i, j \in 1..Len(wh_log) :
        /\ i < j /\ wh_log[i].model_name = wh_log[j].model_name
        /\ wh_log[i].load_model
        => ~wh_log[j].load_model

\* ============ main_app.py, Step 2: a run in which no segment gives text
\* every segment of the loop ended as an empty result
EverySegmentEmpty ==
    /\ Len(audio_segments) >= 1
    /\ Len(segment_results) = Len(audio_segments)
    /\ \A i \in 1..Len(segment_results) : segment_results[i] = ""

\* C26: when every segment ends as an empty result after its retries, the
\* action reports a transcription failure and leaves transcribed_text as
\* it was, for any number of segments.
C26_NoTextNothingStored ==
    [][s2_pc = "result" /\ s2_pc' = "done" /\ EverySegmentEmpty
         => /\ transcribed_text' = transcribed_text
            /\ st_errors' = Append(st_errors, "transcription failed")]_vars

\* ============ main_app.py, Step 2: the splitting loop
CeilDiv(a, b) == (a + b - 1) \div b

\* C27: for every duration above 600 s the splitting loop ends after at
\* most ceil(D / 600) iterations, the segments start at strictly increasing
\* times, none is empty, the first is at most 600 s long and every later
\* one at most 630 s.
C27_SplitLoopBounded ==
    duration_ms > MAX_SEGMENT_DURATION * 1000 /\ s2_pc \in {"split", "loop"} =>
        LET limit == CeilDiv(duration_ms, MAX_SEGMENT_DURATION * 1000) IN
        /\ Len(segments) <= limit
        /\ Len(segments) = limit => ~(start_time < duration_ms)
        /\ \A k \in 1..Len(segments) :
              /\ segments[k].from < segments[k].to
              /\ k > 1 => segments[k - 1].from < segments[k].from
              /\ segments[k].to - segments[k].from
                     <= IF k = 1 THEN MAX_SEGMENT_DURATION * 1000
                        ELSE (MAX_SEGMENT_DURATION + OVERLAP_DURATION) * 1000

\* the loop has ended after three iterations, the last one a partial window
C27_Witness ==
    /\ s2_pc = "loop" /\ Len(segments) = 3
    /\ duration_ms % (MAX_SEGMENT_DURATION * 1000) # 0

\* ============ multi_file_processor.py: the result of process_single_file
\* C28: the result process_single_file returns has status 'completed' or
\* 'failed', never 'processing'; a 'completed' result has error = None and
\* a 'failed' result has a non-empty error.
C28_ResultSelfConsistent ==
    mf_pc = "done" =>
        /\ mf_result.status \in {"completed", "failed"}
        /\ mf_result.status = "completed" => mf_result.error = NoneVal
        /\ mf_result.status = "failed" => Truthy(mf_result.error)

\* ============ multi_file_processor.py, the batch run
\* audio_files is a list of paths: the folder scan gives distinct paths,
\* the uploads are saved as temp_dir/<uploaded name>, so two uploads of the
\* same name give the same path twice.  Futures go by position in the
\* list, the two session dicts by path.
BtPositions == 1..Len(bt_files)
BtPaths == {bt_files[i] : i \in BtPositions}
BtRunning == {i \in BtPositions : bt_future[i] = "running"}
\* what a worker ends with: the status of the result process_single_file
\* returns, or an exception out of it
WorkerOutcomes == {"completed", "failed", "raise"}

InitBatch ==
    /\ bt_pc = "start"
    /\ \E n \in 1..MaxFiles :
          /\ bt_files \in [1..n -> 1..n]
          /\ bt_future = [i \in 1..n |-> "none"]
          /\ bt_outcome = [i \in 1..n |-> "none"]
    /\ processing_status = <<>>
    /\ bt_results = <<>>
    /\ bt_max_workers \in 1..MaxWorkers
    /\ bt_completed = 0
    /\ bt_metrics = NoMetrics
    /\ IdleExceptBt

CountOf(status, s) == Cardinality({f \in DOMAIN status : status[f] = s})

\* the "Start Batch Processing" button up to the submission of every file
BtStart ==
    /\ bt_pc = "start"
    /\ processing_status' = [f \in BtPaths |-> "pending"]
    /\ bt_results' = [f \in BtPaths |-> "absent"]
    /\ bt_metrics' = [pending |-> Len(bt_files), processing |-> 0,
                      completed |-> 0, failed |-> 0]
    /\ bt_future' = [i \in BtPositions |-> "queued"]
    /\ bt_completed' = 0
    /\ bt_pc' = "pool"
    /\ UNCHANGED <<bt_files, bt_max_workers, bt_outcome>>

\* a free worker thread takes the oldest queued task
BtWorkerStart(i) ==
    /\ bt_pc = "pool"
    /\ bt_future[i] = "queued"
    /\ \A j \in BtPositions : j < i => bt_future[j] # "queued"
    /\ Cardinality(BtRunning) < bt_max_workers
    /\ bt_future' = [bt_future EXCEPT ![i] = "running"]
    /\ UNCHANGED <<bt_pc, bt_files, bt_max_workers, bt_outcome,
                   processing_status, bt_results, bt_completed, bt_metrics>>

\* the worker runs process_single_file to its end
BtWorkerFinish(i) ==
    /\ bt_pc = "pool"
    /\ bt_future[i] = "running"
    /\ bt_future' = [bt_future EXCEPT ![i] = "finished"]
    /\ \E outcome \in WorkerOutcomes :
          bt_outcome' = [bt_outcome EXCEPT ![i] = outcome]
    /\ UNCHANGED <<bt_pc, bt_files, bt_max_workers, processing_status,
                   bt_results, bt_completed, bt_metrics>>

\* result['status'], or 'failed' in the except branch
collected_status(outcome) ==
    IF outcome = "raise" THEN "failed" ELSE outcome

\* one iteration of "for future in as_completed(future_to_file)", the
\* update of the metrics included
BtCollect(i) ==
    /\ bt_pc = "pool"
    /\ bt_future[i] = "finished"
    /\ bt_future' = [bt_future EXCEPT ![i] = "collected"]
    /\ bt_results' = [bt_results EXCEPT
                         ![bt_files[i]] = collected_status(bt_outcome[i])]
    /\ processing_status' =
           [processing_status EXCEPT
               ![bt_files[i]] = collected_status(bt_outcome[i])]
    /\ bt_completed' = bt_completed + 1
    /\ bt_metrics' = [pending |-> CountOf(processing_status', "pending"),
                      processing |-> CountOf(processing_status', "processing"),
                      completed |-> CountOf(processing_status', "completed"),
                      failed |-> CountOf(processing_status', "failed")]
    /\ UNCHANGED <<bt_pc, bt_files, bt_max_workers, bt_outcome>>

\* as_completed is exhausted, the executor shuts down
BtEnd ==
    /\ bt_pc = "pool"
    /\ \A i \in BtPositions : bt_future[i] = "collected"
    /\ bt_pc' = "done"
    /\ UNCHANGED <<bt_files, bt_max_workers, bt_future, bt_outcome,
                   processing_status, bt_results, bt_completed, bt_metrics>>

NextBatch ==
    \/ BtStart /\ UNCHANGED notBt
    \/ \E i \in BtPositions : BtWorkerStart(i) /\ UNCHANGED notBt
    \/ \E i \in BtPositions : BtWorkerFinish(i) /\ UNCHANGED notBt
    \/ \E i \in BtPositions : BtCollect(i) /\ UNCHANGED notBt
    \/ BtEnd /\ UNCHANGED notBt

SpecBatch == InitBatch /\ [][NextBatch]_vars

MetricsSum ==
    bt_metrics.pending + bt_metrics.processing + bt_metrics.completed
        + bt_metrics.failed
WorkersFinished ==
    {i \in BtPositions : bt_future[i] \in {"finished", "collected"}}
RunEndsConsistent ==
    bt_pc = "done" =>
        /\ bt_metrics.pending = 0
        /\ Cardinality({f \in DOMAIN bt_results : bt_results[f] # "absent"})
               = Len(bt_files)

\* C29: at each update of the counters their sum is the number of files
\* and completed + failed is the number of files whose worker has
\* finished; when the run ends pending = 0 and the results map has
\* exactly one entry per file.
C29_CountersTrackWorkers ==
    [][/\ bt_completed' = bt_completed + 1 =>
            /\ MetricsSum' = Len(bt_files)
            /\ bt_metrics'.completed + bt_metrics'.failed
                   = Cardinality(WorkersFinished')
       /\ RunEndsConsistent']_vars

\* ============ markitdown_utils.py: the engine-construction loop
FullConstructs ==
    {k \in 1..Len(md_log) : /\ md_log[k].kind = "construct"
                            /\ md_log[k].kwargs = md_kwargs(md_llm_client)}

\* C30: one call makes at most 2 constructions with the full configuration
\* and at most 1 reinstall, the second full construction comes only after
\* a failure with the broken-dependency signature, and every construction
\* or conversion error comes back as a triple with success = False.
C30_ConstructionLoopBounded ==
    /\ Cardinality(FullConstructs) <= 2
    /\ Cardinality(MdReinstalls) <= 1
    /\ \A j, k \in FullConstructs : j < k => IsMagikaError(md_log[j].outcome)
    /\ md_pc = "returned" =>
          /\ md_return \in [success : BOOLEAN, text : {"", "markdown"},
                            info : {"info", "error"}]
          /\ md_return.success =>
                /\ md # "none"
                /\ md_log[Len(md_log)] = MdEvent("convert", {}, "text")

====
